---- MODULE Spec2Model ----
(***************************************************************************)
(* Model of the custom numerical core of the pymunk demo scripts:         *)
(*   - planet.py          k-nearest-neighbour mutual gravity, overlap     *)
(*                        merging (accretion)                             *)
(*   - BouncingBalls.py   k-nearest-neighbour softened attraction with    *)
(*                        force clamping                                  *)
(*   - planet.py          merge loop of the tick, central gravity         *)
(*                        (scalar hook and batched update), spawning      *)
(*   - Feder-Masse-Kette.py   anchor lift: timer, key I, reset            *)
(*   - Doppelfederpendel.py   frame export: MP4 writer or PNG files       *)
(*                                                                         *)
(* Arithmetic.  The scripts compute in floating point; the model computes *)
(* in exact real arithmetic.  The irrational factors the code produces    *)
(* (rs2 ** -1.5, mag2 ** 0.5, x ** (1/3)) are kept symbolically:          *)
(*   - a "surd vector" [x, y, k] stands for the real vector               *)
(*     (x, y) / sqrt(k), with x, y integers and k a positive integer;     *)
(*   - a "formal sum" is a function from keys k to integer vectors and    *)
(*     stands for the sum over k of f[k] / sqrt(k);                       *)
(*   - a rational vector [x, y, d] stands for (x, y) / d;                 *)
(*   - a radius is held by its cube (r3), i.e. radius = r3 ^ (1/3).       *)
(* Python indices 0..n-1 are the model's indices 1..n, in the same order. *)
(***************************************************************************)
EXTENDS Integers, Sequences, FiniteSets, TLC

(***************************************************************************)
(* Bounds of the model and program constants.                             *)
(***************************************************************************)
\* largest number of bodies in a snapshot
MaxBodies == 3
\* neighbour counts K tried (NEIGHBOR_K / ATTR_MAX_NEIGHBORS): none, fewer
\* than the other bodies, all of them, more than there are
Ks == {0, 1, 2, 3}

\* planet.py: NEIGHBOR_G = gravityStrength * 0.001 = 5.0e6 * 0.001
NEIGHBOR_G == 5000
\* planet.py: NEIGHBOR_SOFTENING
NEIGHBOR_SOFTENING == 25
\* planet.py: dt = 1 / 60.0.  Velocities of the planet demo are held in
\* units of 1/60 px/s, so that a * dt is a * DT_NUM in those units.
DT_NUM == 1

\* BouncingBalls.py: BALL_MASS
BALL_MASS == 10
\* BouncingBalls.py: ATTR_G, ATTR_SOFTENING, ATTR_MAX_FORCE are module-level
\* configuration (2.0e6, 100.0, 2.0e3).  The model runs them at a small scale
\* that keeps every product inside TLC's integers and still produces both
\* clamped and unclamped pair forces on the position grid below.
ATTR_G == 2
ATTR_SOFTENING == 1
ATTR_MAX_FORCE == 20

\* positions a body of a neighbour snapshot may have (pixels)
Grid == {<<0, 0>>, <<1, 0>>, <<3, 0>>, <<1, 2>>, <<3, 2>>}
\* shape masses a planet of a neighbour snapshot may have (a fresh planet
\* has mass 1, a merged one the sum of its parts)
Masses == {1, 3}

VARIABLES
    demo,      \* "planet" or "balls": which script the snapshot belongs to
    phase,     \* "ready": snapshot taken; "applied": the pass has run
    pos,       \* pos[i]: position <<x, y>> of body i
    mass,      \* mass[i]: mass of body i
    kn,        \* the neighbour count K in force
    vel,       \* planet: vel[i], velocity of body i (formal sum, units 1/60)
    force,     \* balls: force[i], force accumulated on body i (formal sum)
    pairs,     \* the pair collection built by the pass, in insertion order
    log,       \* the pair contributions applied by the pass, in order
    shapes,    \* planet: space.shapes, the circles of the space in order
    ret,       \* planet: what the last _merge_overlaps_once returned
    nextId,    \* identity given to the next body created by a merge
    tick,      \* planet: the merge phase of main's tick (passes, history)
    cgrav,     \* planet: central gravity, the velocities each path produced
    spawn,     \* planet: add_planet, the planets spawned and the draws made
    chain,     \* Feder-Masse-Kette.py: the state of MassSpringChain
    pend,      \* Doppelfederpendel.py: the state of main's export
    loop       \* planet.py main / BouncyBalls.run: the frame loop and its stages

nvars == <<demo, phase, pos, mass, kn, vel, force, pairs, log>>
mvars == <<shapes, ret, nextId>>
ovars == <<tick, cgrav, spawn, chain, pend, loop>>
nvarsButPhase == <<demo, pos, mass, kn, vel, force, pairs, log>>
vars == <<demo, phase, pos, mass, kn, vel, force, pairs, log, shapes, ret, nextId,
          tick, cgrav, spawn, chain, pend, loop>>

\* the value of a variable that belongs to a part of the scripts which the
\* specification at hand does not run
Unused == "unused"

(***************************************************************************)
(* Exact arithmetic helpers.                                               *)
(***************************************************************************)
Min(a, b) == IF a <= b THEN a ELSE b
Max(a, b) == IF a >= b THEN a ELSE b
Range(s) == {s[a] : a \in DOMAIN s}

\* the real vector (x, y) / sqrt(k)
SVec(x, y, k) == [x |-> x, y |-> y, k |-> k]
SNeg(v) == [x |-> -v.x, y |-> -v.y, k |-> v.k]
SScale(v, c) == [x |-> c * v.x, y |-> c * v.y, k |-> v.k]
SZero == SVec(0, 0, 1)

\* formal sums of surd vectors
FZero == [k \in {} |-> <<0, 0>>]
FGet(f, k) == IF k \in DOMAIN f THEN f[k] ELSE <<0, 0>>
FNorm(f) == [k \in {q \in DOMAIN f : f[q] # <<0, 0>>} |-> f[k]]
FAdd(f, g) ==
    FNorm([k \in DOMAIN f \cup DOMAIN g |->
              <<FGet(f, k)[1] + FGet(g, k)[1], FGet(f, k)[2] + FGet(g, k)[2]>>])
FOf(v) == FNorm([k \in {v.k} |-> <<v.x, v.y>>])
FScale(f, c) == FNorm([k \in DOMAIN f |-> <<c * f[k][1], c * f[k][2]>>])
FInt(x, y) == FOf(SVec(x, y, 1))

RECURSIVE FSumSeq(_)
FSumSeq(s) == IF s = <<>> THEN FZero ELSE FAdd(Head(s), FSumSeq(Tail(s)))

(***************************************************************************)
(* Nearest-neighbour selection, shared shape of planet.py:224-240 and      *)
(* BouncingBalls.py:208-223.                                               *)
(***************************************************************************)
\* d2 = dx * dx + dy * dy with dx = pj.x - pi.x, dy = pj.y - pi.y
Dist2(p, q) == (q[1] - p[1]) * (q[1] - p[1]) + (q[2] - p[2]) * (q[2] - p[2])

\* the list dists of (d2, j) for all j # i, appended in ascending j
Dists(P, i) ==
    SelectSeq([j \in 1..Len(P) |-> <<Dist2(P[i], P[j]), j>>],
              LAMBDA t : t[2] # i)

\* a variant that places an element before the entries of equal key
RECURSIVE InsertBeforeEqual(_, _)
InsertBeforeEqual(s, t) ==
    IF s = <<>> THEN <<t>>
    ELSE IF Head(s)[1] < t[1] THEN <<Head(s)>> \o InsertBeforeEqual(Tail(s), t)
    ELSE <<t>> \o s

\* list.sort(key=lambda t: t[0]) is stable: an element goes after every
\* entry whose key is less than or equal to its own
RECURSIVE InsertStable(_, _)
InsertStable(s, t) ==
    IF s = <<>> THEN <<t>>
    ELSE IF Head(s)[1] <= t[1] THEN <<Head(s)>> \o InsertStable(Tail(s), t)
    ELSE <<t>> \o s

RECURSIVE SortByKey(_)
SortByKey(s) ==
    IF s = <<>> THEN <<>>
    ELSE InsertStable(SortByKey(SubSeq(s, 1, Len(s) - 1)), s[Len(s)])

\* a variant of the slice that takes one element more
PrefixInclusive(s, k) == SubSeq(s, 1, Min(k + 1, Len(s)))

\* s[:k] for k >= 0
Prefix(s, k) == SubSeq(s, 1, Min(k, Len(s)))

\* a, b = (i, j) if i < j else (j, i)
Canon(i, j) == IF i < j THEN <<i, j>> ELSE <<j, i>>

(***************************************************************************)
(* planet.py: _apply_neighbor_gravity                                      *)
(***************************************************************************)
\* pairs.add((a, b)) on a Python set: an element already present is not
\* added again.  The set is held as the sequence of its elements in
\* insertion order.
SetAdd(ps, p) == IF p \in Range(ps) THEN ps ELSE Append(ps, p)

\* dists.sort(...); dists[: max(0, min(NEIGHBOR_K, n - 1))]
planet_nominees(P, i, K) ==
    Prefix(SortByKey(Dists(P, i)), Max(0, Min(K, Len(P) - 1)))

\* for _, j in dists[...]: a, b = ...; pairs.add((a, b))
RECURSIVE planet_add_nominees(_, _, _)
planet_add_nominees(ps, i, noms) ==
    IF noms = <<>> THEN ps
    ELSE planet_add_nominees(SetAdd(ps, Canon(i, Head(noms)[2])), i, Tail(noms))

\* for i in range(n): ...
RECURSIVE planet_pairs_loop(_, _, _, _)
planet_pairs_loop(P, K, i, ps) ==
    IF i > Len(P) THEN ps
    ELSE planet_pairs_loop(P, K, i + 1,
                           planet_add_nominees(ps, i, planet_nominees(P, i, K)))

\* a variant that scales both accelerations with the same body's mass
planet_pair_accel_same_mass(P, M, i, j) ==
    LET dx == P[j][1] - P[i][1]
        dy == P[j][2] - P[i][2]
        rs2 == dx * dx + dy * dy + NEIGHBOR_SOFTENING * NEIGHBOR_SOFTENING
        k == rs2 * rs2 * rs2
    IN  [oni |-> SVec(dx * NEIGHBOR_G * M[j], dy * NEIGHBOR_G * M[j], k),
         onj |-> SVec(-(dx * NEIGHBOR_G * M[j]), -(dy * NEIGHBOR_G * M[j]), k)]

\* the accelerations one pair adds: inv_r3 = 1 / (rs2 * sqrt(rs2)) is
\* 1 / sqrt(rs2^3); s_ij = G * mass[j] * inv_r3, s_ji = G * mass[i] * inv_r3;
\* ax[i] += dx * s_ij, ax[j] -= dx * s_ji (and the same for y)
planet_pair_accel(P, M, i, j) ==
    LET dx == P[j][1] - P[i][1]
        dy == P[j][2] - P[i][2]
        rs2 == dx * dx + dy * dy + NEIGHBOR_SOFTENING * NEIGHBOR_SOFTENING
        k == rs2 * rs2 * rs2
    IN  [oni |-> SVec(dx * NEIGHBOR_G * M[j], dy * NEIGHBOR_G * M[j], k),
         onj |-> SVec(-(dx * NEIGHBOR_G * M[i]), -(dy * NEIGHBOR_G * M[i]), k)]

\* a variant that leaves the loop at a coincident pair instead of going on
\* with the next one
RECURSIVE planet_accumulate_break(_, _, _, _)
planet_accumulate_break(P, M, ps, st) ==
    IF ps = <<>> THEN st
    ELSE LET i == Head(ps)[1]
             j == Head(ps)[2]
             c == planet_pair_accel(P, M, i, j)
         IN  IF Dist2(P[i], P[j]) <= 0
             THEN st
             ELSE planet_accumulate_break(P, M, Tail(ps),
                    [acc |-> [st.acc EXCEPT ![i] = FAdd(@, FOf(c.oni)),
                                            ![j] = FAdd(@, FOf(c.onj))],
                     log |-> Append(st.log,
                                    [i |-> i, j |-> j,
                                     oni |-> c.oni, onj |-> c.onj])])

\* for (i, j) in pairs: ... ; st = [acc, log].  A Python set is iterated in
\* an order of its own; the sums it accumulates do not depend on the order,
\* the model iterates in insertion order.
RECURSIVE planet_accumulate(_, _, _, _)
planet_accumulate(P, M, ps, st) ==
    IF ps = <<>> THEN st
    ELSE LET i == Head(ps)[1]
             j == Head(ps)[2]
             c == planet_pair_accel(P, M, i, j)
         IN  IF Dist2(P[i], P[j]) <= 0
             THEN planet_accumulate(P, M, Tail(ps), st)
             ELSE planet_accumulate(P, M, Tail(ps),
                    [acc |-> [st.acc EXCEPT ![i] = FAdd(@, FOf(c.oni)),
                                            ![j] = FAdd(@, FOf(c.onj))],
                     log |-> Append(st.log,
                                    [i |-> i, j |-> j, oni |-> c.oni, onj |-> c.onj])])

\* pymunk.Body.update_velocity(body, a, damping, dt): v = v * damping + a * dt
\* (the bodies of the planet demo carry no force of their own)
update_velocity(v, a, damping) == FAdd(FScale(v, damping), FScale(a, DT_NUM))

ApplyNeighborGravity ==
    /\ demo = "planet"
    /\ phase = "ready"
    /\ LET n == Len(pos)
           ps == IF n < 2 THEN <<>> ELSE planet_pairs_loop(pos, kn, 1, <<>>)
           st == planet_accumulate(pos, mass, ps,
                                   [acc |-> [i \in 1..n |-> FZero], log |-> <<>>])
       IN  /\ pairs' = ps
           /\ log' = st.log
           /\ vel' = [i \in 1..n |->
                        IF st.acc[i] # FZero
                        THEN update_velocity(vel[i], st.acc[i], 1)
                        ELSE vel[i]]
    /\ phase' = "applied"
    /\ UNCHANGED <<demo, pos, mass, kn, force>>
    /\ UNCHANGED mvars
    /\ UNCHANGED ovars

(***************************************************************************)
(* BouncingBalls.py: BouncyBalls._apply_neighbor_attraction                *)
(***************************************************************************)
\* a variant that compares the squared magnitude with max_f itself
clamp_force_unsquared(v, max_f) ==
    LET m2 == v.x * v.x + v.y * v.y
    IN  IF m2 <= 0 THEN SZero
        ELSE IF m2 <= max_f * v.k THEN v
        ELSE SVec(v.x * max_f, v.y * max_f, m2)

\* clamp_force(vx, vy, max_f) on the vector (v.x, v.y) / sqrt(v.k):
\* mag2 = (v.x^2 + v.y^2) / v.k; mag2 <= max_f^2 is compared after
\* multiplying by v.k; s = max_f / sqrt(mag2), and (vx * s, vy * s) is
\* (v.x * max_f, v.y * max_f) / sqrt(v.x^2 + v.y^2)
clamp_force(v, max_f) ==
    LET m2 == v.x * v.x + v.y * v.y
    IN  IF m2 <= 0 THEN SZero
        ELSE IF m2 <= max_f * max_f * v.k THEN v
        ELSE SVec(v.x * max_f, v.y * max_f, m2)

\* a variant that takes the displacement from j to i
balls_raw_force_reversed(P, M, i, j) ==
    LET dx == P[i][1] - P[j][1]
        dy == P[i][2] - P[j][2]
        rs2 == dx * dx + dy * dy + ATTR_SOFTENING * ATTR_SOFTENING
    IN  SVec(dx * ATTR_G * M[i] * M[j], dy * ATTR_G * M[i] * M[j], rs2 * rs2 * rs2)

\* inv_r = rs2 ** -0.5; inv_r3 = inv_r ** 3 = 1 / sqrt(rs2^3);
\* scale = ATTR_G * mi * mj * inv_r3; fx = dx * scale; fy = dy * scale
balls_raw_force(P, M, i, j) ==
    LET dx == P[j][1] - P[i][1]
        dy == P[j][2] - P[i][2]
        rs2 == dx * dx + dy * dy + ATTR_SOFTENING * ATTR_SOFTENING
    IN  SVec(dx * ATTR_G * M[i] * M[j], dy * ATTR_G * M[i] * M[j], rs2 * rs2 * rs2)

\* bi.apply_force_at_world_point((fx, fy), pi);
\* bj.apply_force_at_world_point((-fx, -fy), pj)
balls_apply(f) == [oni |-> f, onj |-> SNeg(f)]

\* a variant that never finds a pair processed
NeverProcessed(processed, ab) == FALSE

\* if (a, b) in processed_pairs: continue
AlreadyProcessed(processed, ab) == ab \in Range(processed)

\* for _, j in dists[: ATTR_MAX_NEIGHBORS]: ... ; st = [processed, force, log]
RECURSIVE balls_inner(_, _, _, _, _)
balls_inner(P, M, i, noms, st) ==
    IF noms = <<>> THEN st
    ELSE LET j == Head(noms)[2]
             ab == Canon(i, j)
         IN  IF AlreadyProcessed(st.processed, ab)
             THEN balls_inner(P, M, i, Tail(noms), st)
             ELSE LET st1 == [st EXCEPT !.processed = Append(@, ab)]
                      c == balls_apply(clamp_force(balls_raw_force(P, M, i, j),
                                                   ATTR_MAX_FORCE))
                  IN  IF Dist2(P[i], P[j]) <= 0
                      THEN balls_inner(P, M, i, Tail(noms), st1)
                      ELSE balls_inner(P, M, i, Tail(noms),
                             [processed |-> st1.processed,
                              force |-> [st1.force EXCEPT
                                            ![i] = FAdd(@, FOf(c.oni)),
                                            ![j] = FAdd(@, FOf(c.onj))],
                              log |-> Append(st1.log,
                                             [i |-> i, j |-> j,
                                              oni |-> c.oni, onj |-> c.onj])])

\* for i in range(n): dists = ...; dists.sort(...); inner loop
RECURSIVE balls_outer(_, _, _, _, _)
balls_outer(P, M, K, i, st) ==
    IF i > Len(P) THEN st
    ELSE balls_outer(P, M, K, i + 1,
                     balls_inner(P, M, i, Prefix(SortByKey(Dists(P, i)), K), st))

ApplyNeighborAttraction ==
    /\ demo = "balls"
    /\ phase = "ready"
    /\ LET n == Len(pos)
           st0 == [processed |-> <<>>, force |-> force, log |-> <<>>]
           st == IF n < 2 THEN st0 ELSE balls_outer(pos, mass, kn, 1, st0)
       IN  /\ pairs' = st.processed
           /\ log' = st.log
           /\ force' = st.force
    /\ phase' = "applied"
    /\ UNCHANGED <<demo, pos, mass, kn, vel>>
    /\ UNCHANGED mvars
    /\ UNCHANGED ovars

(***************************************************************************)
(* Neighbour passes on a snapshot: the snapshot is drawn from the bounded  *)
(* sets, then the script's pass runs on it.                                *)
(***************************************************************************)
\* a variant without the sign change
perpendicular_unsigned(p) == <<p[2], p[1]>>

\* Vec2d.perpendicular(): (-y, x)
perpendicular(p) == <<-p[2], p[1]>>

InitNeighbor ==
    /\ demo \in {"planet", "balls"}
    /\ phase = "ready"
    /\ \E n \in 0..MaxBodies :
          /\ pos \in [1..n -> Grid]
          /\ mass \in IF demo = "planet" THEN [1..n -> Masses]
                      ELSE {[i \in 1..n |-> BALL_MASS]}
    /\ kn \in Ks
    /\ vel = [i \in DOMAIN pos |->
                FInt(perpendicular(pos[i])[1], perpendicular(pos[i])[2])]
    /\ force = [i \in DOMAIN pos |-> FZero]
    /\ pairs = <<>>
    /\ log = <<>>
    /\ shapes = <<>>
    /\ ret = "none"
    /\ nextId = 1
    /\ tick = Unused /\ cgrav = Unused /\ spawn = Unused
    /\ chain = Unused /\ pend = Unused /\ loop = Unused

NextNeighbor == ApplyNeighborGravity \/ ApplyNeighborAttraction

SpecNeighbor == InitNeighbor /\ [][NextNeighbor]_vars

(***************************************************************************)
(* Properties of the neighbour passes.                                     *)
(***************************************************************************)
\* i nominates j: fewer than min(K, n - 1) other bodies come before j in the
\* order of squared distance from i, ties by ascending index
Nominates(P, K, i, j) ==
    /\ i # j
    /\ Cardinality({l \in (1..Len(P)) \ {i} :
                       \/ Dist2(P[i], P[l]) < Dist2(P[i], P[j])
                       \/ Dist2(P[i], P[l]) = Dist2(P[i], P[j]) /\ l < j})
          < Min(K, Len(P) - 1)

NominatedPairs(P, K) ==
    {Canon(q[1], q[2]) :
        q \in {r \in (1..Len(P)) \X (1..Len(P)) : Nominates(P, K, r[1], r[2])}}

\* C1: the pairs a neighbour pass builds are exactly the union over i of
\* (min(i,j), max(i,j)) for j among the min(K, N-1) nearest other bodies of i
\* by squared distance, ties by ascending index: a pair is in when either
\* endpoint nominates the other, and no other pair is.
C1_PairsAreNearestUnion ==
    phase = "applied" => Range(pairs) = NominatedPairs(pos, kn)

\* C1 witness: a pass ran on a snapshot where a tie in distance decided a
\* nomination, a pair is in through one endpoint only, and a pair is left out.
C1_Witness ==
    /\ phase = "applied"
    /\ \E i, j, l \in DOMAIN pos :
          /\ j < l /\ Dist2(pos[i], pos[j]) = Dist2(pos[i], pos[l])
          /\ Nominates(pos, kn, i, j) /\ ~Nominates(pos, kn, i, l)
    /\ \E i, j \in DOMAIN pos :
          /\ Nominates(pos, kn, i, j) /\ ~Nominates(pos, kn, j, i)
          /\ Canon(i, j) \in Range(pairs)
    /\ \E i, j \in DOMAIN pos : i < j /\ <<i, j>> \notin Range(pairs)

\* C2: within one pass the contribution of an unordered pair {i, j} is
\* applied at most once, also when i and j nominate each other.
C2_PairAppliedAtMostOnce ==
    \A a, b \in DOMAIN log :
        a # b => {log[a].i, log[a].j} # {log[b].i, log[b].j}

\* C2 witness: a pass applied the contribution of a pair whose two bodies
\* nominate each other.
C2_Witness ==
    /\ phase = "applied"
    /\ \E a \in DOMAIN log :
          /\ Nominates(pos, kn, log[a].i, log[a].j)
          /\ Nominates(pos, kn, log[a].j, log[a].i)

\* total linear momentum of the planets, sum of m * v
TotalMomentum(V, M) == FSumSeq([i \in DOMAIN V |-> FScale(V[i], M[i])])
\* total force accumulated on the balls
TotalForce(F) == FSumSeq(F)

\* the two contributions of a log entry are equal and opposite forces
Antisymmetric(e, M) ==
    IF demo = "planet"
    THEN SScale(e.oni, M[e.i]) = SNeg(SScale(e.onj, M[e.j]))
    ELSE e.oni = SNeg(e.onj)

\* C3: for every pair a pass processes, the force on i is the exact negation
\* of the force on j (planet: m_i * a_i = -(m_j * a_j); balls: the clamped
\* force on i is minus the force on j), and the pass leaves the total linear
\* momentum (planet) and the total applied force (balls) unchanged.
C3_EqualAndOpposite ==
    [][/\ \A a \in DOMAIN log' : Antisymmetric(log'[a], mass)
       /\ TotalMomentum(vel', mass) = TotalMomentum(vel, mass)
       /\ TotalForce(force') = TotalForce(force)]_vars

\* C3 witness: a pass applied contributions between bodies of different
\* masses (planet) and changed some velocity.
C3_Witness ==
    /\ phase = "applied"
    /\ demo = "planet"
    /\ \E a \in DOMAIN log : mass[log[a].i] # mass[log[a].j]
    /\ \E i \in DOMAIN vel :
          vel[i] # FInt(perpendicular(pos[i])[1], perpendicular(pos[i])[2])

\* F = G * m_i * m_j * rs2^(-3/2) * d, with d = p_j - p_i and
\* rs2 = |d|^2 + softening^2
PairForce(e) ==
    LET dx == pos[e.j][1] - pos[e.i][1]
        dy == pos[e.j][2] - pos[e.i][2]
        G == IF demo = "planet" THEN NEIGHBOR_G ELSE ATTR_G
        soft == IF demo = "planet" THEN NEIGHBOR_SOFTENING ELSE ATTR_SOFTENING
        rs2 == dx * dx + dy * dy + soft * soft
    IN  SVec(G * mass[e.i] * mass[e.j] * dx, G * mass[e.i] * mass[e.j] * dy,
             rs2 * rs2 * rs2)

\* |v| > max_f, for a surd vector v
Exceeds(v, max_f) == v.x * v.x + v.y * v.y > max_f * max_f * v.k
\* v and w point the same way (both nonzero)
SameDirection(v, w) ==
    /\ v.x * w.y - v.y * w.x = 0
    /\ v.x * w.x + v.y * w.y > 0

\* the force on body i of entry e is f and the force on body j is -f, where
\* f is F, or in the ball demo F clamped (same direction) when it exceeds
\* ATTR_MAX_FORCE
AppliedAs(e, Fi, Fj) ==
    IF demo = "planet"
    THEN /\ SScale(e.oni, mass[e.i]) = Fi
         /\ SScale(e.onj, mass[e.j]) = Fj
    ELSE IF Exceeds(Fi, ATTR_MAX_FORCE)
    THEN /\ SameDirection(e.oni, Fi)
         /\ SameDirection(e.onj, Fj)
    ELSE /\ e.oni = Fi
         /\ e.onj = Fj

\* C4 (as amended): the pair force F = G * m_i * m_j * rs2^(-3/2) * d, with
\* d = p_j - p_i, is applied as +F to body i and -F to body j (attraction:
\* i accelerates by +F/m_i toward j, j by -F/m_j toward i); the ball demo
\* clamps F to ATTR_MAX_FORCE first, keeping its direction.
C4_ForceAttracts ==
    \A a \in DOMAIN log :
        AppliedAs(log[a], PairForce(log[a]), SNeg(PairForce(log[a])))

\* C4 as stated: +F is applied to body j and -F to body i.
C4_AsStated ==
    \A a \in DOMAIN log :
        AppliedAs(log[a], SNeg(PairForce(log[a])), PairForce(log[a]))

\* C4 witness: passes applied a pair force, in the planet demo between
\* different masses, in the ball demo below the clamp.
C4_Witness ==
    /\ phase = "applied"
    /\ \E a \in DOMAIN log :
          \/ demo = "planet" /\ mass[log[a].i] # mass[log[a].j]
          \/ demo = "balls" /\ ~Exceeds(PairForce(log[a]), ATTR_MAX_FORCE)

\* |v| = max_f, for a surd vector v
HasMagnitude(v, max_f) == v.x * v.x + v.y * v.y = max_f * max_f * v.k

\* C5: in the ball demo, a raw pair force above ATTR_MAX_FORCE is applied
\* with magnitude exactly ATTR_MAX_FORCE and the raw force's direction, one
\* not above it is applied unchanged, a zero force stays the zero vector, and
\* no applied pair force exceeds ATTR_MAX_FORCE.
C5_ForceClamped ==
    /\ clamp_force(SZero, ATTR_MAX_FORCE) = SZero
    /\ demo = "balls" =>
          \A a \in DOMAIN log :
              LET e == log[a]
                  F == PairForce(e)
              IN  /\ Exceeds(F, ATTR_MAX_FORCE) =>
                        /\ HasMagnitude(e.oni, ATTR_MAX_FORCE)
                        /\ SameDirection(e.oni, F)
                  /\ ~Exceeds(F, ATTR_MAX_FORCE) => e.oni = F
                  /\ ~Exceeds(e.oni, ATTR_MAX_FORCE)
                  /\ ~Exceeds(e.onj, ATTR_MAX_FORCE)

\* C5 witness: one pass of the ball demo applied a clamped pair force and an
\* unclamped one.
C5_Witness ==
    /\ phase = "applied"
    /\ demo = "balls"
    /\ \E a \in DOMAIN log : Exceeds(PairForce(log[a]), ATTR_MAX_FORCE)
    /\ \E a \in DOMAIN log :
          /\ ~Exceeds(PairForce(log[a]), ATTR_MAX_FORCE)
          /\ PairForce(log[a]) # SZero

\* C19: if K = 0 or fewer than two bodies exist, a neighbour pass computes no
\* pairs and changes nothing: no contribution is applied and no velocity,
\* force, position or mass is modified.
C19_NoNeighboursNoChange ==
    [][(kn = 0 \/ Len(pos) < 2) =>
          /\ pairs' = <<>>
          /\ log' = <<>>
          /\ vel' = vel
          /\ force' = force
          /\ pos' = pos
          /\ mass' = mass]_vars

\* C19 witness: a pass ran with K = 0 on a snapshot of several bodies at
\* different places.
C19_Witness ==
    /\ phase = "applied"
    /\ kn = 0
    /\ \E i, j \in DOMAIN pos : Dist2(pos[i], pos[j]) > 0

\* the contribution of the log entry e to body b, a surd vector
ContribOn(e, b) ==
    IF e.i = b THEN e.oni ELSE IF e.j = b THEN e.onj ELSE SZero

\* what the first n contributions of a log add up to on body b, in the
\* component of the formal sum with key k
RECURSIVE LogOnAt(_, _, _, _)
LogOnAt(lg, b, k, n) ==
    IF n = 0 THEN <<0, 0>>
    ELSE LET c == ContribOn(lg[n], b)
             r == LogOnAt(lg, b, k, n - 1)
         IN  IF c.k = k THEN <<r[1] + c.x, r[2] + c.y>> ELSE r

\* new = old + scale * (the contributions of lg on body b), as formal sums
AddsLogOn(new, old, lg, b, scale) ==
    \A k \in DOMAIN new \cup DOMAIN old \cup {lg[a].oni.k : a \in DOMAIN lg} :
        LET s == LogOnAt(lg, b, k, Len(lg))
        IN  FGet(new, k) = <<FGet(old, k)[1] + scale * s[1],
                             FGet(old, k)[2] + scale * s[2]>>

\* the number of contributions a log holds for the pair p
TimesApplied(lg, p) ==
    Cardinality({a \in DOMAIN lg : Canon(lg[a].i, lg[a].j) = p})

\* C20: a processed pair whose two bodies are at the same position
\* contributes nothing, every other pair of the pass is still processed
\* (once), and what the pass changes on a body is the sum of the
\* contributions of the pairs that are not coincident.
C20_CoincidentPairSkipped ==
    [][/\ \A a \in DOMAIN pairs' :
             TimesApplied(log', pairs'[a]) =
                IF Dist2(pos[pairs'[a][1]], pos[pairs'[a][2]]) <= 0 THEN 0 ELSE 1
       /\ \A b \in DOMAIN pos :
             IF demo = "planet"
             THEN AddsLogOn(vel'[b], vel[b], log', b, DT_NUM)
             ELSE AddsLogOn(force'[b], force[b], log', b, 1)]_vars

\* C20 witness: a pass went through a coincident pair and, after it, through
\* a pair at a distance, whose contribution it applied.
C20_Witness ==
    /\ phase = "applied"
    /\ \E a, b \in DOMAIN pairs :
          /\ a < b
          /\ Dist2(pos[pairs[a][1]], pos[pairs[a][2]]) = 0
          /\ Dist2(pos[pairs[b][1]], pos[pairs[b][2]]) > 0
          /\ TimesApplied(log, pairs[b]) = 1

(***************************************************************************)
(* planet.py: the circles of the space and overlap merging.                *)
(***************************************************************************)
\* planet.py: planet_radius
planet_radius == 3
\* planet.py: PLANET_COLLISION_TYPE
PLANET_COLLISION_TYPE == 1
\* planet.py: circle.friction = 0.7, held in tenths
FRICTION_TENTHS == 7
\* radii are compared with distances at a resolution of 1/RootScale pixel
RootScale == 64

\* positions a planet of a merge snapshot may have (pixels): pairs that
\* overlap, that touch (distance 6), that pass the box test only, that are
\* far apart
MGrid == {0, 5, 6, 12} \X {0, 5}
\* the centre the initial velocities turn around
MCentre == <<6, 2>>

RECURSIVE GCD(_, _)
GCD(a, b) == IF b = 0 THEN a ELSE GCD(b, a % b)
Abs(a) == IF a < 0 THEN -a ELSE a

\* the rational vector (x, y) / d in lowest terms, d > 0
RVec(x, y, d) ==
    LET g == GCD(GCD(Abs(x), Abs(y)), Abs(d))
        sg == IF d < 0 THEN -1 ELSE 1
    IN  [x |-> sg * (x \div g), y |-> sg * (y \div g), d |-> sg * (d \div g)]
RAdd(a, b) == RVec(a.x * b.d + b.x * a.d, a.y * b.d + b.y * a.d, a.d * b.d)
RScale(a, c) == RVec(a.x * c, a.y * c, a.d)
RDiv(a, c) == RVec(a.x, a.y, a.d * c)
RZero == RVec(0, 0, 1)

\* a radius is the real cube root of a positive integer
CubeRoot(n) == [cube |-> n]
Pow3(r) == r.cube

\* the largest c in lo..hi-1 with c^3 <= x, given lo^3 <= x < hi^3
RECURSIVE CbrtSearch(_, _, _)
CbrtSearch(x, lo, hi) ==
    IF hi - lo <= 1 THEN lo
    ELSE LET mid == (lo + hi) \div 2
         IN  IF mid * mid * mid <= x THEN CbrtSearch(x, mid, hi)
             ELSE CbrtSearch(x, lo, mid)

\* the radius in units of 1/RootScale pixel, rounded down and rounded up
RootLo(r) == CbrtSearch(Pow3(r) * RootScale * RootScale * RootScale, 0, 1291)
RootHi(r) ==
    LET c == RootLo(r)
    IN  IF c * c * c = Pow3(r) * RootScale * RootScale * RootScale THEN c ELSE c + 1

\* a fresh planet as add_planet makes it: circle.mass = 1, radius
\* planet_radius, friction 0.7, elasticity 0
Planet(id, p, v, vf) ==
    [id |-> id, mass |-> 1,
     radius |-> CubeRoot(planet_radius * planet_radius * planet_radius),
     pos |-> RVec(p[1], p[2], 1), vel |-> RVec(v[1], v[2], 1),
     friction |-> FRICTION_TENTHS, elasticity |-> 0,
     collision_type |-> PLANET_COLLISION_TYPE, velocity_func |-> vf]

\* abs(p1.x - p2.x) > rsum, for the coordinate difference num / den >= 0
\* and rsum = r1 + r2
ExceedsRsum(num, den, r1, r2) ==
    num * RootScale > (RootLo(r1) + RootLo(r2)) * den

\* the quick box test of the scan: abs(dx) > rsum or abs(dy) > rsum
aabb_reject(s1, s2) ==
    LET den == s1.pos.d * s2.pos.d
        ax == Abs(s1.pos.x * s2.pos.d - s2.pos.x * s1.pos.d)
        ay == Abs(s1.pos.y * s2.pos.d - s2.pos.y * s1.pos.d)
    IN  \/ ExceedsRsum(ax, den, s1.radius, s2.radius)
        \/ ExceedsRsum(ay, den, s1.radius, s2.radius)

\* a variant that takes every pair passing the box test as overlapping
precise_overlap_skipped(s1, s2) == TRUE

\* p1.get_distance(p2) <= rsum, compared as squares
precise_overlap(s1, s2) ==
    LET den == s1.pos.d * s2.pos.d
        ax == s1.pos.x * s2.pos.d - s2.pos.x * s1.pos.d
        ay == s1.pos.y * s2.pos.d - s2.pos.y * s1.pos.d
        rs == RootLo(s1.radius) + RootLo(s2.radius)
    IN  (ax * ax + ay * ay) * RootScale * RootScale <= rs * rs * den * den

\* a variant that averages the velocities without the masses
merge_velocity_unweighted(s1, s2) == RDiv(RAdd(s1.vel, s2.vel), 2)

\* vel = (b1.velocity * m1 + b2.velocity * m2) / M
merge_velocity(s1, s2) ==
    RDiv(RAdd(RScale(s1.vel, s1.mass), RScale(s2.vel, s2.mass)), s1.mass + s2.mass)

\* pos = (b1.position * m1 + b2.position * m2) / M
merge_position(s1, s2) ==
    RDiv(RAdd(RScale(s1.pos, s1.mass), RScale(s2.pos, s2.mass)), s1.mass + s2.mass)

\* a variant that cubes the first radius twice
merge_radius_first_twice(s1, s2) == CubeRoot(Pow3(s1.radius) + Pow3(s1.radius))

\* r_new = (s1.radius ** 3 + s2.radius ** 3) ** (1.0 / 3.0)
merge_radius(s1, s2) == CubeRoot(Pow3(s1.radius) + Pow3(s2.radius))

\* the body and circle _merge_pair builds
\* a variant that gives every merged body the central-gravity hook, as
\* add_planet does for a fresh one
merge_velocity_func_gravity(s1, s2) == "planet_gravity"

\* nb.velocity_func = pymunk.Body.update_velocity if both parents have it,
\* else planet_gravity
merge_velocity_func(s1, s2) ==
    IF s1.velocity_func = "update_velocity" /\ s2.velocity_func = "update_velocity"
    THEN "update_velocity" ELSE "planet_gravity"

merged_circle(s1, s2, id) ==
    [id |-> id, mass |-> s1.mass + s2.mass,
     radius |-> merge_radius(s1, s2),
     pos |-> merge_position(s1, s2), vel |-> merge_velocity(s1, s2),
     friction |-> Max(s1.friction, s2.friction), elasticity |-> 0,
     collision_type |-> PLANET_COLLISION_TYPE,
     velocity_func |-> merge_velocity_func(s1, s2)]

\* a variant that takes only the first source out of the space
merge_pair_keeps_second(W, i, j, id) ==
    IF W[i].mass + W[j].mass <= 0 THEN W
    ELSE LET added == Append(W, merged_circle(W[i], W[j], id))
         IN  SelectSeq(added, LAMBDA c : c.id # W[i].id)

\* _merge_pair(space, s1, s2) on the circles at indices i and j of W:
\* nothing when M <= 0; else space.add(nb, ns) puts the new circle last and
\* space.remove(s1, b1, s2, b2) takes the two sources out.  (Both sources are
\* in the space and are circles: the scan took them from space.shapes.)
merge_pair(W, i, j, id) ==
    IF W[i].mass + W[j].mass <= 0 THEN W
    ELSE LET added == Append(W, merged_circle(W[i], W[j], id))
         IN  SelectSeq(added, LAMBDA c : c.id # W[i].id /\ c.id # W[j].id)

\* a variant of the inner loop that keeps the last overlapping j
RECURSIVE scan_inner_last(_, _, _)
scan_inner_last(W, i, j) ==
    IF j > Len(W) THEN 0
    ELSE LET later == scan_inner_last(W, i, j + 1)
         IN  IF later # 0 THEN later
             ELSE IF ~aabb_reject(W[i], W[j]) /\ precise_overlap(W[i], W[j]) THEN j
             ELSE 0

\* for j in range(i + 1, n): the first j that passes both tests, 0 if none
RECURSIVE scan_inner(_, _, _)
scan_inner(W, i, j) ==
    IF j > Len(W) THEN 0
    ELSE IF aabb_reject(W[i], W[j]) THEN scan_inner(W, i, j + 1)
    ELSE IF precise_overlap(W[i], W[j]) THEN j
    ELSE scan_inner(W, i, j + 1)

\* for i in range(n): the first pair <<i, j>> found, <<0, 0>> if none
RECURSIVE scan_outer(_, _)
scan_outer(W, i) ==
    IF i > Len(W) THEN <<0, 0>>
    ELSE LET j == scan_inner(W, i, i + 1)
         IN  IF j # 0 THEN <<i, j>> ELSE scan_outer(W, i + 1)

\* a variant that reports a merge whatever the scan found
merge_overlaps_once_true(W, id) ==
    LET hit == scan_outer(W, 1)
    IN  IF hit = <<0, 0>> THEN [shapes |-> W, ret |-> "True"]
        ELSE [shapes |-> merge_pair(W, hit[1], hit[2], id), ret |-> "True"]

\* _merge_overlaps_once(space): the space after the call and the value
\* returned
merge_overlaps_once(W, id) ==
    LET hit == scan_outer(W, 1)
    IN  IF hit = <<0, 0>> THEN [shapes |-> W, ret |-> "False"]
        ELSE [shapes |-> merge_pair(W, hit[1], hit[2], id), ret |-> "True"]

MergeOverlapsOnce ==
    /\ demo = "planet"
    /\ phase = "merge"
    /\ LET r == merge_overlaps_once(shapes, nextId)
       IN  /\ shapes' = r.shapes
           /\ ret' = r.ret
           /\ nextId' = IF Len(r.shapes) # Len(shapes) THEN nextId + 1 ELSE nextId
    /\ UNCHANGED nvars
    /\ UNCHANGED ovars

\* A space of up to MaxBodies fresh planets, all with the same velocity
\* function (planet_gravity, or update_velocity while batched updates are
\* on), each moving at right angles to its offset from MCentre.
InitMerge ==
    /\ demo = "planet"
    /\ phase = "merge"
    /\ pos = <<>> /\ mass = <<>> /\ vel = <<>> /\ force = <<>>
    /\ kn = 0 /\ pairs = <<>> /\ log = <<>>
    /\ \E n \in 0..MaxBodies, vf \in {"planet_gravity", "update_velocity"} :
          /\ \E P \in [1..n -> MGrid] :
                shapes = [i \in 1..n |->
                            Planet(i, P[i],
                                   perpendicular(<<P[i][1] - MCentre[1],
                                                   P[i][2] - MCentre[2]>>), vf)]
          /\ nextId = n + 1
    /\ ret = "none"
    /\ tick = Unused /\ cgrav = Unused /\ spawn = Unused
    /\ chain = Unused /\ pend = Unused /\ loop = Unused

NextMerge == MergeOverlapsOnce

SpecMerge == InitMerge /\ [][NextMerge]_vars

\* every comparison of a distance with a sum of radii made on the circles of
\* the space is decided by the rounded-down radii as by the exact ones: the
\* rounded-up radii give the same answer
Decisive ==
    \A a, b \in DOMAIN shapes :
        LET s1 == shapes[a]
            s2 == shapes[b]
            den == s1.pos.d * s2.pos.d
            ax == Abs(s1.pos.x * s2.pos.d - s2.pos.x * s1.pos.d)
            ay == Abs(s1.pos.y * s2.pos.d - s2.pos.y * s1.pos.d)
            lo == RootLo(s1.radius) + RootLo(s2.radius)
            hi == RootHi(s1.radius) + RootHi(s2.radius)
        IN  /\ (ax * RootScale > lo * den) = (ax * RootScale >= hi * den /\
                                             (lo # hi \/ ax * RootScale > hi * den))
            /\ (ay * RootScale > lo * den) = (ay * RootScale >= hi * den /\
                                             (lo # hi \/ ay * RootScale > hi * den))
            /\ ((ax * ax + ay * ay) * RootScale * RootScale <= lo * lo * den * den)
                  = ((ax * ax + ay * ay) * RootScale * RootScale
                        <= hi * hi * den * den /\
                     (lo = hi \/ (ax * ax + ay * ay) * RootScale * RootScale
                                    < hi * hi * den * den))

(***************************************************************************)
(* Properties of overlap merging.                                          *)
(***************************************************************************)
Ids(W) == {W[a].id : a \in DOMAIN W}
Last(W) == W[Len(W)]
\* the circles of W that are no longer in V
Gone(W, V) == {W[a] : a \in {b \in DOMAIN W : W[b].id \notin Ids(V)}}

RECURSIVE SumMass(_)
SumMass(W) == IF W = <<>> THEN 0 ELSE Head(W).mass + SumMass(Tail(W))
RECURSIVE SumMomentum(_)
SumMomentum(W) ==
    IF W = <<>> THEN RZero
    ELSE RAdd(RScale(Head(W).vel, Head(W).mass), SumMomentum(Tail(W)))
RECURSIVE SumCubes(_)
SumCubes(W) == IF W = <<>> THEN 0 ELSE Pow3(Head(W).radius) + SumCubes(Tail(W))

\* the step replaced the circles s1 and s2 by one new circle, placed last
Replaced(s1, s2) ==
    /\ Len(shapes') = Len(shapes) - 1
    /\ Gone(shapes, shapes') = {s1, s2}
    /\ s1.id # s2.id
    /\ Last(shapes').id \notin Ids(shapes)
    /\ \A a \in 1..(Len(shapes') - 1) : shapes'[a] \in Range(shapes)

\* C6: a merge of two circles gives mass M = m1 + m2, position
\* (m1*p1 + m2*p2)/M and velocity (m1*v1 + m2*v2)/M, and every merge pass
\* leaves the total mass and the total linear momentum of the space as they
\* were.
C6_MomentumConserved ==
    [][/\ SumMass(shapes') = SumMass(shapes)
       /\ SumMomentum(shapes') = SumMomentum(shapes)
       /\ ret' = "True" =>
             \E s1, s2 \in Range(shapes) :
                 /\ Replaced(s1, s2)
                 /\ Last(shapes').mass = s1.mass + s2.mass
                 /\ RScale(Last(shapes').pos, s1.mass + s2.mass)
                       = RAdd(RScale(s1.pos, s1.mass), RScale(s2.pos, s2.mass))
                 /\ RScale(Last(shapes').vel, s1.mass + s2.mass)
                       = RAdd(RScale(s1.vel, s1.mass), RScale(s2.vel, s2.mass))]_vars

\* C6 witness: merge passes produced a moving circle out of parts of
\* different mass (a merged circle and a fresh planet).
C6_Witness ==
    /\ ret = "True"
    /\ \E a \in DOMAIN shapes : shapes[a].mass >= 3 /\ shapes[a].vel # RZero

\* C7: the merged radius satisfies r_new^3 = r1^3 + r2^3, and every merge
\* pass leaves the sum of radius cubed over the circles of the space as it
\* was.
C7_VolumeConserved ==
    [][/\ SumCubes(shapes') = SumCubes(shapes)
       /\ ret' = "True" =>
             \E s1, s2 \in Range(shapes) :
                 /\ Replaced(s1, s2)
                 /\ Pow3(Last(shapes').radius) = Pow3(s1.radius) + Pow3(s2.radius)]_vars

\* C7 witness: a merge pass joined two circles of different radii.
C7_Witness ==
    /\ ret = "True"
    /\ \E a \in DOMAIN shapes :
          Pow3(shapes[a].radius) = 3 * planet_radius * planet_radius * planet_radius

\* centre distance <= sum of radii (touching included), as squares at the
\* resolution of the radii
CirclesOverlap(s1, s2) ==
    LET den == s1.pos.d * s2.pos.d
        ax == s1.pos.x * s2.pos.d - s2.pos.x * s1.pos.d
        ay == s1.pos.y * s2.pos.d - s2.pos.y * s1.pos.d
        rs == RootLo(s1.radius) + RootLo(s2.radius)
    IN  (ax * ax + ay * ay) * RootScale * RootScale <= rs * rs * den * den

OverlappingPairs(W) ==
    {q \in (DOMAIN W) \X (DOMAIN W) : q[1] < q[2] /\ CirclesOverlap(W[q[1]], W[q[2]])}

\* the first pair in scan order: the smallest i, and the smallest j with it
FirstPair(O) ==
    CHOOSE q \in O : \A r \in O : q[1] < r[1] \/ (q[1] = r[1] /\ q[2] <= r[2])

\* W without the elements at indices i and j
Without(W, i, j) ==
    LET keep == [a \in DOMAIN W |-> a # i /\ a # j]
        F[a \in 0..Len(W)] ==
            IF a = 0 THEN <<>> ELSE IF keep[a] THEN Append(F[a - 1], W[a]) ELSE F[a - 1]
    IN  F[Len(W)]

\* C8: one call of _merge_overlaps_once merges at most one pair; when some
\* pair of circles overlaps (touching included) the pair merged is the first
\* in scan order, and every other circle is left as it was, in its place.
C8_FirstPairMerged ==
    [][LET O == OverlappingPairs(shapes)
       IN  IF O = {} THEN shapes' = shapes
           ELSE LET f == FirstPair(O)
                IN  /\ Len(shapes') = Len(shapes) - 1
                    /\ SubSeq(shapes', 1, Len(shapes') - 1) = Without(shapes, f[1], f[2])
                    /\ Last(shapes').id \notin Ids(shapes)
                    /\ Last(shapes').mass = shapes[f[1]].mass + shapes[f[2]].mass]_vars

\* C8 witness: a pass merged the planets 1 and 2 and left planet 3 as it
\* was, although it overlaps the merged circle: that overlap waits for a
\* later pass.
C8_Witness ==
    /\ ret = "True"
    /\ Len(shapes) = 2
    /\ shapes[1].id = 3 /\ shapes[1].mass = 1
    /\ CirclesOverlap(shapes[1], shapes[2])

\* C9: when every pair of circles has centre distance strictly greater than
\* the sum of its radii, _merge_overlaps_once returns False and leaves the
\* space unchanged.
C9_NoOverlapNoChange ==
    [][OverlappingPairs(shapes) = {} =>
          /\ ret' = "False"
          /\ shapes' = shapes
          /\ nextId' = nextId]_vars

\* C9 witness: a pass returned False on a space of several circles, two of
\* which pass the box test without overlapping.
C9_Witness ==
    /\ ret = "False"
    /\ Len(shapes) >= 2
    /\ \E a, b \in DOMAIN shapes : a < b /\ ~aabb_reject(shapes[a], shapes[b])

\* C10: _merge_overlaps_once returns True exactly when one pair was replaced
\* by a merged circle (one circle fewer), False exactly when the space is as
\* it was, and on an empty space or a single circle it completes with False.
C10_ReturnReportsMerge ==
    [][/\ ret' \in {"True", "False"}
       /\ ret' = "True" <=>
             /\ Len(shapes') = Len(shapes) - 1
             /\ \E s1, s2 \in Range(shapes) : Replaced(s1, s2)
       /\ ret' = "False" <=> shapes' = shapes
       /\ Len(shapes) < 2 => ret' = "False"]_vars

\* C10 witness: after a merge, a pass on the single circle left returned
\* False.
C10_Witness ==
    /\ ret = "False"
    /\ Len(shapes) = 1
    /\ shapes[1].mass >= 2

(***************************************************************************)
(* planet.py: main, the tick of the frame loop around the merge phase:     *)
(*   _apply_neighbor_gravity(space, dt); space.step(dt);                   *)
(*   for _ in range(5): if not _merge_overlaps_once(space): break          *)
(* tick = [passes, before, ticks, merged]:                                 *)
(*   passes  calls of _merge_overlaps_once made by the merge loop of the   *)
(*           tick at hand;                                                  *)
(*   before  number of circles in the space when that loop began;         *)
(*   ticks   ticks completed;                                               *)
(*   merged  the merges made so far, as <<id of the merged body, id of    *)
(*           the first source, id of the second source>>.                  *)
(* phase tells which stage of the tick runs next: "neighbor", "step" or    *)
(* "merge".                                                                 *)
(***************************************************************************)
\* planet.py: for _ in range(5)
MERGE_PASSES == 5
\* largest number of planets in the space at the first tick
TickBodies == 7
\* number of ticks followed
MaxTicks == 2
\* positions of the planets of the first tick, and the places the engine
\* step may carry a planet to: two spots a little more than two planet radii
\* apart, so that fresh planets of different spots do not overlap and merged
\* ones do
TGrid == {<<0, 0>>, <<7, 0>>}

\* a variant of the loop test that ignores what the pass returned
merge_loop_no_break(passes, r) == passes < MERGE_PASSES

\* the merge loop makes another pass: fewer than range(5) passes were made
\* and the last pass did not return False (break)
merge_loop_continues(passes, r) == passes < MERGE_PASSES /\ r # "False"

\* _apply_neighbor_gravity(space, dt): the pass reads the space and writes
\* velocities; it adds and removes nothing.  What it writes is modelled by
\* ApplyNeighborGravity on snapshots; here it is the stage of the tick that
\* sees the space before the engine step.
TickNeighborGravity ==
    /\ demo = "planet"
    /\ phase = "neighbor"
    /\ tick.ticks < MaxTicks
    /\ phase' = "step"
    /\ UNCHANGED <<nvarsButPhase, mvars, ovars>>

\* space.step(dt): the engine moves the bodies; it adds and removes nothing.
\* The motion is pymunk's: the model lets the step leave every planet where
\* it is or carry one of them to a spot of TGrid.  The merge loop then starts
\* with no pass made.
TickStep ==
    /\ demo = "planet"
    /\ phase = "step"
    /\ \/ shapes' = shapes
       \/ \E a \in DOMAIN shapes, g \in TGrid :
             shapes' = [shapes EXCEPT ![a].pos = RVec(g[1], g[2], 1)]
    /\ phase' = "merge"
    /\ ret' = "none"
    /\ tick' = [tick EXCEPT !.passes = 0, !.before = Len(shapes)]
    /\ UNCHANGED <<nvarsButPhase, nextId, cgrav, spawn, chain, pend, loop>>

\* one iteration of the merge loop: _merge_overlaps_once(space)
TickMergePass ==
    /\ demo = "planet"
    /\ phase = "merge"
    /\ merge_loop_continues(tick.passes, ret)
    /\ LET r == merge_overlaps_once(shapes, nextId)
           hit == scan_outer(shapes, 1)
       IN  /\ shapes' = r.shapes
           /\ ret' = r.ret
           /\ nextId' = IF Len(r.shapes) # Len(shapes) THEN nextId + 1 ELSE nextId
           /\ tick' = [tick EXCEPT
                         !.passes = @ + 1,
                         !.merged = IF Len(r.shapes) # Len(shapes)
                                    THEN @ \cup {<<nextId, shapes[hit[1]].id,
                                                   shapes[hit[2]].id>>}
                                    ELSE @]
    /\ UNCHANGED <<nvars, cgrav, spawn, chain, pend, loop>>

\* the merge loop is left (range(5) exhausted, or break) and the tick ends
TickMergeDone ==
    /\ demo = "planet"
    /\ phase = "merge"
    /\ ~merge_loop_continues(tick.passes, ret)
    /\ phase' = "neighbor"
    /\ tick' = [tick EXCEPT !.ticks = @ + 1]
    /\ UNCHANGED <<nvarsButPhase, mvars, cgrav, spawn, chain, pend, loop>>

\* main before the first tick: up to TickBodies fresh planets, as made by
\* add_planet, on the spots of TGrid
InitTick ==
    /\ demo = "planet"
    /\ phase = "neighbor"
    /\ pos = <<>> /\ mass = <<>> /\ vel = <<>> /\ force = <<>>
    /\ kn = 0 /\ pairs = <<>> /\ log = <<>>
    /\ \E n \in 0..TickBodies :
          /\ \E P \in [1..n -> TGrid] :
                shapes = [i \in 1..n |->
                            Planet(i, P[i],
                                   perpendicular(<<P[i][1] - MCentre[1],
                                                   P[i][2] - MCentre[2]>>),
                                   "planet_gravity")]
          /\ nextId = n + 1
          /\ tick = [passes |-> 0, before |-> n, ticks |-> 0, merged |-> {}]
    /\ ret = "none"
    /\ cgrav = Unused /\ spawn = Unused /\ chain = Unused /\ pend = Unused /\ loop = Unused

NextTick == TickNeighborGravity \/ TickStep \/ TickMergePass \/ TickMergeDone

SpecTick == InitTick /\ [][NextTick]_vars

\* the frame loop keeps running: when the merge loop has made its last pass
\* the statements after it are executed
SpecTickFair == SpecTick /\ WF_vars(TickMergeDone)

(***************************************************************************)
(* planet.py: central gravity, planet_gravity (the per-body velocity       *)
(* function pymunk calls in space.step) and batched_planet_gravity (numpy  *)
(* over the buffer of all bodies).                                         *)
(* A number a + b / (q * sqrt(q)), with a, b integers and q a positive     *)
(* integer, is held as [a, b, q]; velocities are in units of 1/60 px/s as  *)
(* in the neighbour pass, so that g * dt is g * DT_NUM.                    *)
(* cgrav = [bodies, hook, batch, ran]: the bodies of the space in order,    *)
(* each [p, v] with integer position and velocity; the velocities written  *)
(* by the velocity functions; the velocities written from the update       *)
(* buffer; which of the two paths ("hook", "batch") have run.              *)
(***************************************************************************)
\* planet.py: gravityStrength = 5.0e6
gravityStrength == 5000000
\* planet.py: center = Vec2d(450, 450)
center == <<450, 450>>
\* largest number of bodies in the space of a central-gravity snapshot
GravBodies == 3
\* positions of the bodies of a snapshot: above, beside and close to the
\* centre and far from it, none at the centre itself
GravPos == {<<450, 500>>, <<480, 410>>, <<451, 450>>, <<60, 450>>}
\* velocities of the bodies of a snapshot
GravVel == {<<0, 0>>, <<3, -2>>}

NNum(a, b, q) == IF b = 0 THEN [a |-> a, b |-> 0, q |-> 1] ELSE [a |-> a, b |-> b, q |-> q]
\* x * c and x + y for an integer c and an integer y
NTimes(x, c) == NNum(x.a * c, x.b * c, x.q)
NPlus(x, y) == NNum(x.a + y, x.b, x.q)

\* p.get_dist_sqrd(center); (p_x - center.x) ** 2 + (p_y - center.y) ** 2
sq_dist(p) ==
    (p[1] - center[1]) * (p[1] - center[1]) + (p[2] - center[2]) * (p[2] - center[2])

\* planet_gravity(body, gravity, damping, dt):
\*   g = (p - center) * -gravityStrength / (sq_dist * sqrt(sq_dist))
\*   pymunk.Body.update_velocity(body, g, damping, dt): v * damping + g * dt
planet_gravity(body, damping) ==
    LET q == sq_dist(body.p)
        gx == NNum(0, (body.p[1] - center[1]) * (-gravityStrength), q)
        gy == NNum(0, (body.p[2] - center[2]) * (-gravityStrength), q)
    IN  <<NPlus(NTimes(gx, DT_NUM), body.v[1] * damping),
          NPlus(NTimes(gy, DT_NUM), body.v[2] * damping)>>

\* pymunk.batch.get_space_bodies(space, POSITION | VELOCITY, buffer): for
\* each body in order its p.x, p.y, v.x, v.y
RECURSIVE get_space_bodies(_)
get_space_bodies(bodies) ==
    IF bodies = <<>> THEN <<>>
    ELSE <<Head(bodies).p[1], Head(bodies).p[2], Head(bodies).v[1], Head(bodies).v[2]>>
            \o get_space_bodies(Tail(bodies))

\* arr[start::4]
Every4th(arr, start) ==
    [a \in 1..((Len(arr) - start + 3) \div 4) |-> arr[start + 1 + 4 * (a - 1)]]

\* a variant that lays the two rows out one after the other (order "C")
ravel_C(xs, ys) == xs \o ys

\* np.ravel([xs, ys], "F"): column by column, xs[0], ys[0], xs[1], ys[1], ...
ravel_F(xs, ys) ==
    [a \in 1..(2 * Len(xs)) |-> IF a % 2 = 1 THEN xs[(a + 1) \div 2] ELSE ys[a \div 2]]

\* batched_planet_gravity(draw_buffer, dt, update_buffer): what it sets
\* update_buffer to
batched_planet_gravity(buf) ==
    LET p_x == Every4th(buf, 0)
        p_y == Every4th(buf, 1)
        v_x == Every4th(buf, 2)
        v_y == Every4th(buf, 3)
        scaled == [a \in DOMAIN p_x |->
                     NNum(0, -gravityStrength, sq_dist(<<p_x[a], p_y[a]>>))]
        g_x == [a \in DOMAIN p_x |-> NTimes(scaled[a], p_x[a] - center[1])]
        g_y == [a \in DOMAIN p_x |-> NTimes(scaled[a], p_y[a] - center[2])]
        new_v_x == [a \in DOMAIN p_x |-> NPlus(NTimes(g_x[a], DT_NUM), v_x[a])]
        new_v_y == [a \in DOMAIN p_x |-> NPlus(NTimes(g_y[a], DT_NUM), v_y[a])]
    IN  ravel_F(new_v_x, new_v_y)

\* pymunk.batch.set_space_bodies(space, VELOCITY, buffer): the velocity of
\* the body at index i is read from the buffer at 2i, 2i + 1
set_space_bodies(bodies, buf) ==
    [a \in DOMAIN bodies |-> <<buf[2 * a - 1], buf[2 * a]>>]

\* space.step with every body on planet_gravity: the engine calls the
\* velocity function of each body with its damping of 1.0
StepWithHooks ==
    /\ demo = "gravity"
    /\ "hook" \notin cgrav.ran
    /\ cgrav' = [cgrav EXCEPT
                    !.hook = [a \in DOMAIN cgrav.bodies |->
                                planet_gravity(cgrav.bodies[a], 1)],
                    !.ran = @ \cup {"hook"}]
    /\ UNCHANGED <<nvars, mvars, tick, spawn, chain, pend, loop>>

\* main with use_batch_update: get_space_bodies, batched_planet_gravity,
\* set_space_bodies
BatchedUpdate ==
    /\ demo = "gravity"
    /\ "batch" \notin cgrav.ran
    /\ cgrav' = [cgrav EXCEPT
                    !.batch = set_space_bodies(cgrav.bodies,
                                 batched_planet_gravity(get_space_bodies(cgrav.bodies))),
                    !.ran = @ \cup {"batch"}]
    /\ UNCHANGED <<nvars, mvars, tick, spawn, chain, pend, loop>>

\* a space of up to GravBodies bodies, none at the centre
InitGravity ==
    /\ demo = "gravity"
    /\ phase = "ready"
    /\ pos = <<>> /\ mass = <<>> /\ vel = <<>> /\ force = <<>>
    /\ kn = 0 /\ pairs = <<>> /\ log = <<>>
    /\ shapes = <<>> /\ ret = "none" /\ nextId = 1
    /\ \E n \in 0..GravBodies :
          \E P \in [1..n -> GravPos], V \in [1..n -> GravVel] :
              cgrav = [bodies |-> [a \in 1..n |-> [p |-> P[a], v |-> V[a]]],
                       hook |-> <<>>, batch |-> <<>>, ran |-> {}]
    /\ tick = Unused /\ spawn = Unused /\ chain = Unused /\ pend = Unused /\ loop = Unused

NextGravity == StepWithHooks \/ BatchedUpdate

SpecGravity == InitGravity /\ [][NextGravity]_vars

\* a = -G_c * (p - c) / r^3 in each coordinate, and v + a * dt
CentralVelocity(body) ==
    LET q == sq_dist(body.p)
        dx == body.p[1] - center[1]
        dy == body.p[2] - center[2]
    IN  <<NNum(body.v[1], -(gravityStrength * dx * DT_NUM), q),
          NNum(body.v[2], -(gravityStrength * dy * DT_NUM), q)>>

\* C13: for the same positions, velocities, centre, strength and dt, the
\* velocity the per-body function planet_gravity produces with damping 1.0,
\* v + a * dt with a = -G_c * (p - c) / r^3, is the velocity
\* batched_planet_gravity writes for that body, for every body of the
\* snapshot, each at its own index.
C13_ScalarEqualsBatch ==
    /\ "hook" \in cgrav.ran =>
          /\ DOMAIN cgrav.hook = DOMAIN cgrav.bodies
          /\ \A a \in DOMAIN cgrav.bodies :
                cgrav.hook[a] = CentralVelocity(cgrav.bodies[a])
    /\ cgrav.ran = {"hook", "batch"} =>
          /\ DOMAIN cgrav.batch = DOMAIN cgrav.hook
          /\ \A a \in DOMAIN cgrav.bodies : cgrav.batch[a] = cgrav.hook[a]

\* C13 witness: both paths ran on a snapshot of several bodies at different
\* places and with different velocities, and every velocity changed.
C13_Witness ==
    /\ cgrav.ran = {"hook", "batch"}
    /\ Len(cgrav.bodies) >= 3
    /\ \E a, b \in DOMAIN cgrav.bodies :
          /\ cgrav.bodies[a].p # cgrav.bodies[b].p
          /\ cgrav.bodies[a].v # cgrav.bodies[b].v
          /\ cgrav.batch[a] # cgrav.batch[b]
    /\ \A a \in DOMAIN cgrav.bodies :
          cgrav.batch[a] # <<NNum(cgrav.bodies[a].v[1], 0, 1),
                             NNum(cgrav.bodies[a].v[2], 0, 1)>>

(***************************************************************************)
(* planet.py: add_planet.  The random draws of a call are its inputs: the  *)
(* candidate positions, the number random.random() returns and the factor  *)
(* random.uniform returns, both in thousandths.                             *)
(* The speed factor v of a planet is held as [milli, r2]: milli / 1000      *)
(* times sqrt(G / r) / r at r = sqrt(r2); its velocity is dir * v.          *)
(* spawn = [planets, draws]: the planets added so far, in order, each       *)
(* [p, dir, v, velocity_func]; the candidate positions the last call drew.  *)
(***************************************************************************)
\* planet.py: if r > 40
SPAWN_CLEARANCE == 40
\* planet.py: ELLIPTICAL_FRACTION = 0.01, in thousandths
ELLIPTICAL_FRACTION == 10
\* planet.py: ELLIPTICAL_SPEED_RANGE = (0.6, 0.95), in thousandths
ELLIPTICAL_SPEED_MIN == 600
ELLIPTICAL_SPEED_MAX == 950
\* largest number of planets added
MaxSpawned == 2
\* largest number of candidate positions one call draws
MaxDraws == 3
\* candidate positions random.randint(0, 900) x 2 may give: the centre, two
\* at distance exactly 40, one at distance 41, corners and edges far out
Candidates ==
    {<<450, 450>>, <<490, 450>>, <<474, 482>>, <<450, 491>>, <<0, 0>>, <<900, 450>>}
\* values of random.random(), in thousandths: below ELLIPTICAL_FRACTION, just
\* below it, equal to it, far above it
RandomValues == {0, 9, 10, 500}
\* values of random.uniform(0.6, 0.95), in thousandths: the ends of the
\* range and one between
UniformValues == {ELLIPTICAL_SPEED_MIN, 800, ELLIPTICAL_SPEED_MAX}

\* a variant of the clearance test that accepts the distance 40 itself
clear_of_centre_inclusive(p) == sq_dist(p) >= SPAWN_CLEARANCE * SPAWN_CLEARANCE

\* r = body.position.get_distance(center); r > 40, for integer coordinates
clear_of_centre(p) == sq_dist(p) > SPAWN_CLEARANCE * SPAWN_CLEARANCE

\* while True: position = draw; if r > 40: break -- the number of draws the
\* loop consumes from ds, 0 when it does not end within ds
RECURSIVE draws_consumed(_, _)
draws_consumed(ds, k) ==
    IF k > Len(ds) THEN 0
    ELSE IF clear_of_centre(ds[k]) THEN k
    ELSE draws_consumed(ds, k + 1)

\* v_circ * speed_factor if random.random() < ELLIPTICAL_FRACTION else v_circ,
\* with v_circ = sqrt(gravityStrength / r) / r at the r of the position p
spawn_speed(p, u, f) ==
    [milli |-> IF u < ELLIPTICAL_FRACTION THEN f ELSE 1000, r2 |-> sq_dist(p)]

\* the body add_planet makes from the accepted position p
spawned_planet(p, u, f) ==
    [p |-> p,
     dir |-> perpendicular(<<p[1] - center[1], p[2] - center[2]>>),
     v |-> spawn_speed(p, u, f),
     velocity_func |-> "planet_gravity"]

\* add_planet(space)
AddPlanet ==
    /\ demo = "spawn"
    /\ Len(spawn.planets) < MaxSpawned
    /\ \E n \in 1..MaxDraws :
          \E ds \in [1..n -> Candidates], u \in RandomValues, f \in UniformValues :
              /\ draws_consumed(ds, 1) = n
              /\ spawn' = [planets |-> Append(spawn.planets,
                                              spawned_planet(ds[n], u, f)),
                           draws |-> ds]
    /\ UNCHANGED <<nvars, mvars, tick, cgrav, chain, pend, loop>>

\* main before the first add_planet: an empty space
InitSpawn ==
    /\ demo = "spawn"
    /\ phase = "ready"
    /\ pos = <<>> /\ mass = <<>> /\ vel = <<>> /\ force = <<>>
    /\ kn = 0 /\ pairs = <<>> /\ log = <<>>
    /\ shapes = <<>> /\ ret = "none" /\ nextId = 1
    /\ spawn = [planets |-> <<>>, draws |-> <<>>]
    /\ tick = Unused /\ cgrav = Unused /\ chain = Unused /\ pend = Unused /\ loop = Unused

NextSpawn == AddPlanet

SpecSpawn == InitSpawn /\ [][NextSpawn]_vars

\* C14: every body add_planet puts into the space is at a distance from the
\* centre strictly greater than 40 px; the candidates drawn before it were
\* all within 40 px (the distance 40 itself included) and were rejected, so
\* no planet is placed at the centre.
C14_SpawnClearance ==
    /\ \A a \in DOMAIN spawn.planets :
          /\ sq_dist(spawn.planets[a].p) > SPAWN_CLEARANCE * SPAWN_CLEARANCE
          /\ spawn.planets[a].p # center
    /\ spawn.planets # <<>> =>
          /\ spawn.draws # <<>>
          /\ Last(spawn.planets).p = Last(spawn.draws)
          /\ \A k \in 1..(Len(spawn.draws) - 1) :
                sq_dist(spawn.draws[k]) <= SPAWN_CLEARANCE * SPAWN_CLEARANCE

\* C14 witness: a call drew the centre and a position at distance exactly
\* 40, rejected both, and placed the planet at distance 41.
C14_Witness ==
    /\ Len(spawn.draws) = 3
    /\ spawn.draws[1] = center
    /\ sq_dist(spawn.draws[2]) = SPAWN_CLEARANCE * SPAWN_CLEARANCE
    /\ sq_dist(Last(spawn.planets).p) = 41 * 41

Dot(a, b) == a[1] * b[1] + a[2] * b[2]
Cross(a, b) == a[1] * b[2] - a[2] * b[1]
Radius(q) == <<q.p[1] - center[1], q.p[2] - center[2]>>

\* C15: every planet add_planet makes starts with a velocity at right
\* angles to its radius vector, turning the same way round the centre for
\* every planet, of length r * v, where v is sqrt(G_c / r) / r at the planet's
\* own r for a circular orbit, or that times a factor from 0.6 to 0.95 for an
\* elliptical one; the speed is never above the circular speed.
C15_OrbitalSeeding ==
    /\ \A a \in DOMAIN spawn.planets :
          LET q == spawn.planets[a]
          IN  /\ Dot(q.dir, Radius(q)) = 0
              /\ Dot(q.dir, q.dir) = Dot(Radius(q), Radius(q))
              /\ q.v.r2 = Dot(Radius(q), Radius(q))
              /\ \/ q.v.milli = 1000
                 \/ /\ q.v.milli >= ELLIPTICAL_SPEED_MIN
                    /\ q.v.milli <= ELLIPTICAL_SPEED_MAX
              /\ q.v.milli > 0 /\ q.v.milli <= 1000
    /\ \A a, b \in DOMAIN spawn.planets :
          (Cross(Radius(spawn.planets[a]), spawn.planets[a].dir) > 0)
             = (Cross(Radius(spawn.planets[b]), spawn.planets[b].dir) > 0)
    /\ \A a \in DOMAIN spawn.planets :
          Cross(Radius(spawn.planets[a]), spawn.planets[a].dir) # 0

\* C15 witness: a planet on a circular orbit and one on an elliptical orbit
\* were added, on different sides of the centre.
C15_Witness ==
    /\ Len(spawn.planets) = 2
    /\ spawn.planets[1].v.milli = 1000
    /\ spawn.planets[2].v.milli < 1000
    /\ Radius(spawn.planets[1])[1] < 0
    /\ Radius(spawn.planets[2])[1] > 0

(***************************************************************************)
(* Feder-Masse-Kette.py: MassSpringChain, the lift of the left anchor.     *)
(* Times are in units of dt = 1/120 s, heights in units of 0.05 m.         *)
(* chain = [pc, running, time_accum, impulse_applied, impulse_time_s,      *)
(*          anchor_lift_m, anchor_y, keys, lifts, ended, last]:            *)
(*   pc       "loop" while run's while loop is executing, "stopped" after  *)
(*            it has been left;                                             *)
(*   anchor_y height of left_anchor above left_anchor_base;                *)
(*   keys     number of key events handled so far;                          *)
(*   lifts    calls of _apply_first_spring_impulse since the start or the  *)
(*            last reset;                                                    *)
(*   ended    the values lifts had when a run ended, by reset or by the     *)
(*            end of the loop;                                               *)
(*   last     the event or frame handled last.                               *)
(* The chain's bodies and springs do not act on the anchor (a kinematic     *)
(* body moved only by _apply_first_spring_impulse and _build_chain); the    *)
(* keys G, 1 and 2 set gravity and damping of the space only.  None of      *)
(* them is part of the state.                                                *)
(***************************************************************************)
\* Feder-Masse-Kette.py: IMPULSE_TIME_S = 0.25
IMPULSE_TIME_S == 30
\* self.impulse_time_s -+ 0.05 (keys 5, 6), at most 5.0
IMPULSE_TIME_STEP == 6
IMPULSE_TIME_MAX == 600
\* ANCHOR_LIFT_M = 0.5; self.anchor_lift_m -+ 0.05 (keys 3, 4), at most 2.0
ANCHOR_LIFT_M == 10
ANCHOR_LIFT_MAX == 40
\* self.physics_steps_per_frame = 2: a frame adds dt * 2 to time_accum
PHYSICS_STEPS_PER_FRAME == 2
\* largest number of key events in a behaviour
MaxKeys == 5

\* a variant of key I that lifts without looking at impulse_applied
key_i_unguarded(c) ==
    [c EXCEPT !.anchor_y = @ + c.anchor_lift_m,
              !.impulse_applied = TRUE,
              !.lifts = @ + 1]

\* _apply_first_spring_impulse: left_anchor.position = (x, y + anchor_lift_m);
\* impulse_applied = True
apply_first_spring_impulse(c) ==
    [c EXCEPT !.anchor_y = @ + c.anchor_lift_m,
              !.impulse_applied = TRUE,
              !.lifts = @ + 1]

\* K_i: if not self.impulse_applied: self._apply_first_spring_impulse()
key_i(c) == IF ~c.impulse_applied THEN apply_first_spring_impulse(c) ELSE c

\* _reset_sim: the space and the chain are built anew (_build_chain puts
\* left_anchor at left_anchor_base), time_accum = 0.0, impulse_applied = False;
\* impulse_time_s and anchor_lift_m stay as they are
reset_sim(c) ==
    [c EXCEPT !.anchor_y = 0, !.time_accum = 0, !.impulse_applied = FALSE,
              !.ended = @ \cup {c.lifts}, !.lifts = 0]

\* one event of _process_events
KeyEvent(k) ==
    /\ demo = "chain"
    /\ chain.pc = "loop"
    /\ chain.keys < MaxKeys
    /\ LET c == [chain EXCEPT !.keys = @ + 1, !.last = k]
       IN  chain' =
             CASE k = "quit" -> [c EXCEPT !.running = FALSE]
               [] k = "3" -> [c EXCEPT !.anchor_lift_m = Max(0, @ - 1)]
               [] k = "4" -> [c EXCEPT !.anchor_lift_m = Min(ANCHOR_LIFT_MAX, @ + 1)]
               [] k = "5" -> [c EXCEPT !.impulse_time_s = Max(0, @ - IMPULSE_TIME_STEP)]
               [] k = "6" -> [c EXCEPT !.impulse_time_s =
                                          Min(IMPULSE_TIME_MAX, @ + IMPULSE_TIME_STEP)]
               [] k = "i" -> key_i(c)
               [] k = "r" -> reset_sim(c)
    /\ UNCHANGED <<nvars, mvars, tick, cgrav, spawn, pend, loop>>

\* the rest of an iteration of run's loop, after _process_events: the timed
\* impulse, the physics steps, drawing; then the loop test
Frame ==
    /\ demo = "chain"
    /\ chain.pc = "loop"
    /\ LET c0 == [chain EXCEPT !.last = "frame"]
           c1 == IF ~c0.impulse_applied
                 THEN [c0 EXCEPT !.time_accum = @ + PHYSICS_STEPS_PER_FRAME]
                 ELSE c0
           c2 == IF ~c1.impulse_applied /\ c1.time_accum >= c1.impulse_time_s
                 THEN apply_first_spring_impulse(c1)
                 ELSE c1
       IN  chain' = IF c2.running THEN c2
                    ELSE [c2 EXCEPT !.pc = "stopped", !.ended = @ \cup {c2.lifts}]
    /\ UNCHANGED <<nvars, mvars, tick, cgrav, spawn, pend, loop>>

\* MassSpringChain.__init__
InitChain ==
    /\ demo = "chain"
    /\ phase = "ready"
    /\ pos = <<>> /\ mass = <<>> /\ vel = <<>> /\ force = <<>>
    /\ kn = 0 /\ pairs = <<>> /\ log = <<>>
    /\ shapes = <<>> /\ ret = "none" /\ nextId = 1
    /\ chain = [pc |-> "loop", running |-> TRUE, time_accum |-> 0,
                impulse_applied |-> FALSE, impulse_time_s |-> IMPULSE_TIME_S,
                anchor_lift_m |-> ANCHOR_LIFT_M, anchor_y |-> 0,
                keys |-> 0, lifts |-> 0, ended |-> {}, last |-> "init"]
    /\ tick = Unused /\ cgrav = Unused /\ spawn = Unused /\ pend = Unused /\ loop = Unused

NextChain ==
    \/ \E k \in {"quit", "3", "4", "5", "6", "i", "r"} : KeyEvent(k)
    \/ Frame

\* run's loop goes from frame to frame without waiting for input
SpecChain == InitChain /\ [][NextChain]_vars /\ WF_vars(Frame)

\* C17 as stated: the left anchor is lifted exactly once in every run, a run
\* being what lies between the start or a reset and the next reset or the
\* end of the loop.
C17_AsStated == \A n \in chain.ended : n = 1

\* C17: the left anchor is lifted at most once per run.  After the start or
\* a reset the lift is made by the first frame in which time_accum, raised
\* by the frame, has reached impulse_time_s, or by a press of key I before
\* that; nothing else lifts, and once lifted the anchor stays as it is until
\* the next reset.  A reset puts the anchor at its base with time_accum = 0
\* and impulse_applied = False.  A run that is neither reset nor quit comes
\* to its lift; one that is reset or quit before either trigger has none.
C17_LiftedOncePerRun ==
    /\ [](/\ chain.lifts <= 1
          /\ chain.impulse_applied <=> chain.lifts = 1
          /\ ~chain.impulse_applied => chain.anchor_y = 0
          /\ chain.last = "r" =>
                /\ chain.anchor_y = 0
                /\ chain.time_accum = 0
                /\ ~chain.impulse_applied)
    /\ [][/\ chain'.lifts = chain.lifts + 1 <=>
                /\ ~chain.impulse_applied
                /\ \/ chain'.last = "i"
                   \/ /\ chain'.last = "frame"
                      /\ chain.time_accum + PHYSICS_STEPS_PER_FRAME
                            >= chain.impulse_time_s
          /\ chain'.lifts = chain.lifts + 1 =>
                chain'.anchor_y = chain.anchor_y + chain.anchor_lift_m
          /\ (chain.impulse_applied /\ chain'.last # "r") =>
                /\ chain'.impulse_applied
                /\ chain'.anchor_y = chain.anchor_y
                /\ chain'.time_accum = chain.time_accum]_vars
    /\ (~chain.impulse_applied ~> (chain.impulse_applied \/ chain.pc = "stopped"))

\* C17 witness: the anchor was lifted by key I, the simulation was reset,
\* and the timed impulse of the new run has lifted it again, once.
C17_Witness ==
    /\ chain.ended = {1}
    /\ chain.last = "frame"
    /\ chain.impulse_applied
    /\ chain.lifts = 1
    /\ chain.time_accum >= chain.impulse_time_s
    /\ chain.anchor_y = chain.anchor_lift_m
    /\ chain.anchor_y > 0

(***************************************************************************)
(* Doppelfederpendel.py: main, the export of the frames.                   *)
(* pend = [pc, imageio, writer, use_video, ensured, dir, frame, mp4, png,  *)
(*         unsaved]:                                                        *)
(*   pc       "setup" before the writer is prepared, "loop" in the frame   *)
(*            loop, "done" after the loop, "quit" after a QUIT event,      *)
(*            "failed" after pygame.image.save raised;                      *)
(*   imageio  the import of imageio succeeded;                              *)
(*   writer   "none", "open" or "closed";                                   *)
(*   ensured  ensure_dir(frame_dir) has been called;                        *)
(*   dir      ./frames exists (it may be left from an earlier run);         *)
(*   frame    the number of frames recorded so far, the index of the next; *)
(*   mp4      the frame indices appended to the writer, in order;           *)
(*   png      the frame indices saved as PNG files, in order;               *)
(*   unsaved  the frame indices whose PNG could not be written.             *)
(***************************************************************************)
\* number of frames of the export (NUM_FRAMES = int(DURATION_S * FPS), 600)
NumFrames == 5

\* if imageio is not None: try: writer = imageio.get_writer(...);
\* use_video = True; except: writer = None; use_video = False
\* if not use_video: ensure_dir(frame_dir)
\* ok: get_writer returns a writer (it raises otherwise)
prepare(c, ok) ==
    LET video == c.imageio /\ ok
    IN  [c EXCEPT !.pc = "loop",
                  !.writer = IF video THEN "open" ELSE "none",
                  !.use_video = video,
                  !.ensured = ~video,
                  !.dir = IF ~video THEN TRUE ELSE @]

\* if use_video and writer is not None and frame_rgb is not None:
\*     writer.append_data(frame_rgb)
\* else: pygame.image.save(screen, str(frame_dir / f"frame_{frame:05d}.png"))
\* captured: frame_rgb is not None; the save raises when ./frames is missing
record_frame(c, captured) ==
    IF c.use_video /\ c.writer # "none" /\ captured
    THEN [c EXCEPT !.mp4 = Append(@, c.frame), !.frame = @ + 1]
    ELSE IF c.dir
    THEN [c EXCEPT !.png = Append(@, c.frame), !.frame = @ + 1]
    ELSE [c EXCEPT !.unsaved = Append(@, c.frame), !.pc = "failed"]

Prepare ==
    /\ demo = "pendulum"
    /\ pend.pc = "setup"
    /\ \E ok \in BOOLEAN : pend' = prepare(pend, ok)
    /\ UNCHANGED <<nvars, mvars, tick, cgrav, spawn, chain, loop>>

\* one iteration of for frame in range(NUM_FRAMES) without a QUIT event
RecordFrame ==
    /\ demo = "pendulum"
    /\ pend.pc = "loop"
    /\ pend.frame < NumFrames
    /\ \E captured \in BOOLEAN : pend' = record_frame(pend, captured)
    /\ UNCHANGED <<nvars, mvars, tick, cgrav, spawn, chain, loop>>

\* if event.type == pygame.QUIT: return
Quit ==
    /\ demo = "pendulum"
    /\ pend.pc = "loop"
    /\ pend.frame < NumFrames
    /\ pend' = [pend EXCEPT !.pc = "quit"]
    /\ UNCHANGED <<nvars, mvars, tick, cgrav, spawn, chain, loop>>

\* after the loop: if writer is not None: writer.close()
Finish ==
    /\ demo = "pendulum"
    /\ pend.pc = "loop"
    /\ pend.frame = NumFrames
    /\ pend' = [pend EXCEPT !.pc = "done",
                            !.writer = IF @ = "open" THEN "closed" ELSE @]
    /\ UNCHANGED <<nvars, mvars, tick, cgrav, spawn, chain, loop>>

\* main at "Videoausgabe vorbereiten": imageio imported or not, ./frames
\* there or not
InitPendulum ==
    /\ demo = "pendulum"
    /\ phase = "ready"
    /\ pos = <<>> /\ mass = <<>> /\ vel = <<>> /\ force = <<>>
    /\ kn = 0 /\ pairs = <<>> /\ log = <<>>
    /\ shapes = <<>> /\ ret = "none" /\ nextId = 1
    /\ \E io \in BOOLEAN, d \in BOOLEAN :
          pend = [pc |-> "setup", imageio |-> io, writer |-> "none",
                  use_video |-> FALSE, ensured |-> FALSE, dir |-> d,
                  frame |-> 0, mp4 |-> <<>>, png |-> <<>>, unsaved |-> <<>>]
    /\ tick = Unused /\ cgrav = Unused /\ spawn = Unused /\ chain = Unused /\ loop = Unused

NextPendulum == Prepare \/ RecordFrame \/ Quit \/ Finish

SpecPendulum == InitPendulum /\ [][NextPendulum]_vars

\* C18 as stated: every frame simulated goes to exactly one sink, the MP4
\* writer when a writer was opened and a PNG under ./frames otherwise, and a
\* PNG is written only after ensure_dir has created ./frames, whatever the
\* outcome of the import, of get_writer and of the frame captures.
C18_OneSinkDirEnsured ==
    /\ Len(pend.mp4) + Len(pend.png) = pend.frame
    /\ Range(pend.mp4) \cap Range(pend.png) = {}
    /\ pend.unsaved = <<>>
    /\ pend.writer # "none" => pend.png = <<>>
    /\ pend.writer = "none" => pend.mp4 = <<>>
    /\ pend.png # <<>> => pend.ensured

\* the run in which the code departs from C18: a writer was opened, so
\* ensure_dir was not called, a frame capture failed and the frame went to
\* the PNG branch
C18_FallbackWithoutDir ==
    /\ pend.writer = "open"
    /\ ~pend.ensured
    /\ pend.png # <<>> \/ pend.unsaved # <<>>

\* C11: in every tick the merge loop makes at most MERGE_PASSES (5) calls of
\* _merge_overlaps_once and makes no call after one that returned False;
\* each call takes at most one body out, so that the body count falls by at
\* most 5 in a tick; and the loop comes to its end: every step taken inside
\* it is a pass that raises the pass count, which never exceeds 5, and once
\* no further pass is due the loop is left.
C11_MergePassesBounded ==
    /\ [](/\ tick.passes <= MERGE_PASSES
          /\ Len(shapes) <= tick.before
          /\ tick.before - Len(shapes) <= tick.passes)
    /\ [][/\ (phase = "merge" /\ ret = "False") => tick'.passes = tick.passes
          /\ (phase = "merge" /\ phase' = "merge") =>
                /\ tick'.passes = tick.passes + 1
                /\ Len(shapes') >= Len(shapes) - 1
          /\ phase' # "merge" => Len(shapes') = Len(shapes)]_vars
    /\ ((phase = "merge" /\ (tick.passes = MERGE_PASSES \/ ret = "False"))
          ~> phase = "neighbor")

\* C11 witness: a merge loop ended after five passes that each merged a
\* pair, with circles still overlapping in the space.
C11_Witness ==
    /\ phase = "neighbor"
    /\ tick.passes = MERGE_PASSES
    /\ tick.before - Len(shapes) = MERGE_PASSES
    /\ ret = "True"
    /\ OverlappingPairs(shapes) # {}

\* C12: a merge replaces exactly its two source bodies by exactly one new
\* body: the pass that merges takes both sources out, puts the merged body
\* in and lowers the body count by exactly one, a pass that does not merge
\* and the other stages of the tick leave the set of bodies as it is; and in
\* no state that a stage of the tick (neighbour pass, engine step, next scan)
\* finds is a source of a merge in the space, alone or beside the body
\* that replaced it; the replacement is there until it is merged itself.
C12_MergeReplacesSources ==
    /\ [][/\ (tick'.passes = tick.passes + 1 /\ ret' = "True") =>
                /\ Len(shapes') = Len(shapes) - 1
                /\ \E s1, s2 \in Range(shapes) :
                      /\ Replaced(s1, s2)
                      /\ <<Last(shapes').id, s1.id, s2.id>> \in tick'.merged
          /\ ~(tick'.passes = tick.passes + 1 /\ ret' = "True") =>
                /\ Ids(shapes') = Ids(shapes)
                /\ tick'.merged = tick.merged]_vars
    /\ [](/\ Cardinality(Ids(shapes)) = Len(shapes)
          /\ \A h \in tick.merged :
                /\ h[2] \notin Ids(shapes)
                /\ h[3] \notin Ids(shapes)
                /\ \/ h[1] \in Ids(shapes)
                   \/ \E g \in tick.merged : h[1] \in {g[2], g[3]})

\* C12 witness: the neighbour pass of a later tick finds a space in which a
\* merged body stands in for its two sources, next to bodies never merged.
C12_Witness ==
    /\ phase = "neighbor"
    /\ tick.ticks >= 1
    /\ \E h \in tick.merged : h[1] \in Ids(shapes)
    /\ \E a \in DOMAIN shapes : shapes[a].mass = 1

\* C16: the merged body's velocity function is determined by the parents'
\* (planet_gravity when both parents have planet_gravity, the engine's
\* update_velocity when both have that), its friction is the larger of the
\* parents' frictions, its elasticity is 0 and its collision type is the
\* planet collision type.
C16_MergedAttributes ==
    [][ret' = "True" =>
          \E s1, s2 \in Range(shapes) :
              /\ Replaced(s1, s2)
              /\ LET nb == Last(shapes')
                 IN  /\ nb.velocity_func \in {"planet_gravity", "update_velocity"}
                     /\ (s1.velocity_func = "planet_gravity"
                             /\ s2.velocity_func = "planet_gravity")
                           => nb.velocity_func = "planet_gravity"
                     /\ (s1.velocity_func = "update_velocity"
                             /\ s2.velocity_func = "update_velocity")
                           => nb.velocity_func = "update_velocity"
                     /\ nb.friction >= s1.friction /\ nb.friction >= s2.friction
                     /\ nb.friction \in {s1.friction, s2.friction}
                     /\ nb.elasticity = 0
                     /\ nb.collision_type = PLANET_COLLISION_TYPE]_vars

\* C16 witness: two bodies that are integrated by the engine's own
\* update_velocity (batched updates on) were merged, and the merged body was
\* merged again.
C16_Witness ==
    /\ ret = "True"
    /\ Last(shapes).velocity_func = "update_velocity"
    /\ Last(shapes).mass >= 3

(***************************************************************************)
(* The frame loops: planet.py main (while True) and BouncyBalls.run.      *)
(* loop holds the position of the loop and what its stages did.           *)
(* planet.py, loop = [pc, HAS_NUMPY, use_batch_update, keys, ticks,        *)
(*                    passes, history, by_batch, by_hook]:                 *)
(*   pc        the stage that runs next: "events", "batch", "neighbor",    *)
(*             "step", "merge", or "done" after return;                    *)
(*   keys      key events handled so far; ticks: iterations completed;    *)
(*   passes    calls of _merge_overlaps_once made in the iteration;       *)
(*   history   the last stage of the iteration before ("start" in the     *)
(*             first one), then the stages the iteration at hand has run; *)
(*   by_batch  ids of the bodies whose velocity set_space_bodies wrote    *)
(*             from batched_planet_gravity in the iteration at hand;      *)
(*   by_hook   ids of the bodies for which space.step called              *)
(*             planet_gravity in the iteration at hand.                    *)
(* The values the two paths write are modelled by StepWithHooks and       *)
(* BatchedUpdate; here each application is recorded.  The keys P and D    *)
(* (screenshot, batched drawing) change nothing the stages read and are   *)
(* left out.                                                               *)
(* BouncingBalls.py, loop = [pc, running, steps, frames,                   *)
(*                           ticks_to_next_ball, balls, history].         *)
(***************************************************************************)
\* planets in the space when main enters its loop (starting_planets)
LoopBodies == 1
\* planets added by one key A (range(100) in planet.py)
PlanetsPerKey == 1
\* key events followed in a run of main
LoopKeys == 2
\* iterations of main's loop followed
LoopTicks == 2
\* frames of BouncyBalls.run followed
BallFrames == 12
\* BouncingBalls.py
BALLS_STEPS_PER_FRAME == 1
INITIAL_TICKS_TO_NEXT_BALL == 10
TICKS_BETWEEN_BALLS == 100

\* a planet as add_planet puts it into the space, on a spot of TGrid:
\* body.velocity_func = planet_gravity whatever the update mode
fresh_planet(id, g) ==
    Planet(id, g, perpendicular(<<g[1] - MCentre[1], g[2] - MCentre[2]>>),
           "planet_gravity")

\* for x in range(...): add_planet(space), the planets landing on spots
add_planets(W, id, spots) ==
    W \o [k \in 1..Len(spots) |-> fresh_planet(id + k - 1, spots[k])]

\* for b in space.bodies: b.velocity_func = vf
set_velocity_funcs(W, vf) ==
    [i \in DOMAIN W |-> [W[i] EXCEPT !.velocity_func = vf]]

\* key U: the flag after the event
key_u_flag(c) == IF c.HAS_NUMPY THEN ~c.use_batch_update ELSE FALSE

\* key U: the space after the event
key_u_space(c, W) ==
    IF c.HAS_NUMPY
    THEN set_velocity_funcs(W, IF key_u_flag(c) THEN "update_velocity"
                               ELSE "planet_gravity")
    ELSE W

\* a variant of main's statement order with the engine step ahead of the
\* neighbour pass
planet_next_step_first(pc, c) ==
    CASE pc = "events"   -> IF c.HAS_NUMPY /\ c.use_batch_update
                            THEN "batch" ELSE "step"
      [] pc = "batch"    -> "step"
      [] pc = "step"     -> "neighbor"
      [] pc = "neighbor" -> "merge"
      [] pc = "merge"    -> "events"

\* the stage main runs after the stage pc is complete
planet_next(pc, c) ==
    CASE pc = "events"   -> IF c.HAS_NUMPY /\ c.use_batch_update
                            THEN "batch" ELSE "neighbor"
      [] pc = "batch"    -> "neighbor"
      [] pc = "neighbor" -> "step"
      [] pc = "step"     -> "merge"
      [] pc = "merge"    -> "events"

\* the ids of the bodies of the space, in order
body_ids(W) == [i \in DOMAIN W |-> W[i].id]

\* the ids of the bodies whose velocity function is planet_gravity
hooked_ids(W) ==
    body_ids(SelectSeq(W, LAMBDA s : s.velocity_func = "planet_gravity"))

\* QUIT or ESC in the event loop: return
MainQuit ==
    /\ demo = "planet"
    /\ loop.pc = "events"
    /\ loop.keys < LoopKeys
    /\ loop' = [loop EXCEPT !.pc = "done", !.keys = @ + 1]
    /\ UNCHANGED <<nvars, mvars, tick, cgrav, spawn, chain, pend>>

\* key A in the event loop
MainKeyA ==
    /\ demo = "planet"
    /\ loop.pc = "events"
    /\ loop.keys < LoopKeys
    /\ \E spots \in [1..PlanetsPerKey -> TGrid] :
          /\ shapes' = add_planets(shapes, nextId, spots)
          /\ nextId' = nextId + PlanetsPerKey
    /\ loop' = [loop EXCEPT !.keys = @ + 1]
    /\ UNCHANGED <<nvars, ret, tick, cgrav, spawn, chain, pend>>

\* key U in the event loop
MainKeyU ==
    /\ demo = "planet"
    /\ loop.pc = "events"
    /\ loop.keys < LoopKeys
    /\ shapes' = key_u_space(loop, shapes)
    /\ loop' = [loop EXCEPT !.use_batch_update = key_u_flag(loop),
                            !.keys = @ + 1]
    /\ UNCHANGED <<nvars, ret, nextId, tick, cgrav, spawn, chain, pend>>

\* the event loop is through: the iteration goes on to its stages
MainEventsDone ==
    /\ demo = "planet"
    /\ loop.pc = "events"
    /\ loop.ticks < LoopTicks
    /\ loop' = [loop EXCEPT !.pc = planet_next("events", loop),
                            !.history = <<Last(@), "events">>,
                            !.passes = 0,
                            !.by_batch = <<>>, !.by_hook = <<>>]
    /\ UNCHANGED <<nvars, mvars, tick, cgrav, spawn, chain, pend>>

\* if HAS_NUMPY and use_batch_update: get_space_bodies,
\* batched_planet_gravity, set_space_bodies: the velocity of every body of
\* the space is written
MainBatch ==
    /\ demo = "planet"
    /\ loop.pc = "batch"
    /\ loop' = [loop EXCEPT !.pc = planet_next("batch", loop),
                            !.history = Append(@, "batch"),
                            !.by_batch = @ \o body_ids(shapes)]
    /\ UNCHANGED <<nvars, mvars, tick, cgrav, spawn, chain, pend>>

\* _apply_neighbor_gravity(space, dt)
MainNeighbor ==
    /\ demo = "planet"
    /\ loop.pc = "neighbor"
    /\ loop' = [loop EXCEPT !.pc = planet_next("neighbor", loop),
                            !.history = Append(@, "neighbor")]
    /\ UNCHANGED <<nvars, mvars, tick, cgrav, spawn, chain, pend>>

\* space.step(dt): the engine calls the velocity function of every body,
\* then moves the bodies.  The motion is pymunk's: the model lets the step
\* leave every planet where it is or carry the planet listed last (the one
\* added or merged most recently) to a spot of TGrid.
MainStep ==
    /\ demo = "planet"
    /\ loop.pc = "step"
    /\ \/ shapes' = shapes
       \/ \E a \in {Len(shapes)} \cap DOMAIN shapes, g \in TGrid :
             shapes' = [shapes EXCEPT ![a].pos = RVec(g[1], g[2], 1)]
    /\ ret' = "none"
    /\ loop' = [loop EXCEPT !.pc = planet_next("step", loop),
                            !.history = Append(@, "step"),
                            !.by_hook = @ \o hooked_ids(shapes)]
    /\ UNCHANGED <<nvars, nextId, tick, cgrav, spawn, chain, pend>>

\* one iteration of for _ in range(5): _merge_overlaps_once(space)
MainMergePass ==
    /\ demo = "planet"
    /\ loop.pc = "merge"
    /\ merge_loop_continues(loop.passes, ret)
    /\ LET r == merge_overlaps_once(shapes, nextId)
       IN  /\ shapes' = r.shapes
           /\ ret' = r.ret
           /\ nextId' = IF Len(r.shapes) # Len(shapes) THEN nextId + 1 ELSE nextId
    /\ loop' = [loop EXCEPT !.passes = @ + 1,
                            !.history = Append(@, "merge")]
    /\ UNCHANGED <<nvars, tick, cgrav, spawn, chain, pend>>

\* the merge loop is left; the frame is shown and the next iteration begins
MainMergeDone ==
    /\ demo = "planet"
    /\ loop.pc = "merge"
    /\ ~merge_loop_continues(loop.passes, ret)
    /\ loop' = [loop EXCEPT !.pc = planet_next("merge", loop),
                            !.ticks = @ + 1]
    /\ UNCHANGED <<nvars, mvars, tick, cgrav, spawn, chain, pend>>

\* the stage BouncyBalls.run runs after the stage pc, steps engine steps of
\* the frame being made
balls_next(pc, steps, running) ==
    CASE pc = "events"     -> "attraction"
      [] pc = "attraction" -> IF BALLS_STEPS_PER_FRAME > 0 THEN "step" ELSE "update"
      [] pc = "step"       -> IF steps < BALLS_STEPS_PER_FRAME THEN "step" ELSE "update"
      [] pc = "update"     -> IF running THEN "events" ELSE "done"

\* self._process_events(): QUIT or ESC clears _running; the frame goes on
BallsEvents ==
    /\ demo = "balls"
    /\ loop.pc = "events"
    /\ loop.frames < BallFrames
    /\ \E quit \in BOOLEAN :
          loop' = [loop EXCEPT !.running = IF quit THEN FALSE ELSE @,
                               !.steps = 0,
                               !.pc = balls_next("events", 0, TRUE),
                               !.history = <<Last(@), "events">>]
    /\ UNCHANGED <<nvars, mvars, tick, cgrav, spawn, chain, pend>>

\* self._apply_neighbor_attraction()
BallsAttraction ==
    /\ demo = "balls"
    /\ loop.pc = "attraction"
    /\ loop' = [loop EXCEPT !.pc = balls_next("attraction", 0, TRUE),
                            !.history = Append(@, "attraction")]
    /\ UNCHANGED <<nvars, mvars, tick, cgrav, spawn, chain, pend>>

\* one self._space.step(self._dt) of range(_physics_steps_per_frame)
BallsStep ==
    /\ demo = "balls"
    /\ loop.pc = "step"
    /\ loop' = [loop EXCEPT !.steps = @ + 1,
                            !.pc = balls_next("step", loop.steps + 1, TRUE),
                            !.history = Append(@, "step")]
    /\ UNCHANGED <<nvars, mvars, tick, cgrav, spawn, chain, pend>>

\* self._update_balls(), the drawing, and the test of while self._running;
\* gone balls are those the engine carried below BALL_REMOVE_Y
BallsUpdate ==
    /\ demo = "balls"
    /\ loop.pc = "update"
    /\ LET t == loop.ticks_to_next_ball - 1
           made == IF t <= 0 THEN loop.balls + 1 ELSE loop.balls
       IN  \E gone \in 0..made :
              loop' = [loop EXCEPT
                         !.ticks_to_next_ball = IF t <= 0 THEN TICKS_BETWEEN_BALLS ELSE t,
                         !.balls = made - gone,
                         !.frames = @ + 1,
                         !.pc = balls_next("update", 0, loop.running),
                         !.history = Append(@, "update")]
    /\ UNCHANGED <<nvars, mvars, tick, cgrav, spawn, chain, pend>>

\* main at its first iteration with up to LoopBodies planets from add_planet,
\* or BouncyBalls after __init__
InitLoop ==
    /\ phase = "loop"
    /\ pos = <<>> /\ mass = <<>> /\ vel = <<>> /\ force = <<>>
    /\ kn = 0 /\ pairs = <<>> /\ log = <<>>
    /\ ret = "none"
    /\ tick = Unused /\ cgrav = Unused /\ spawn = Unused
    /\ chain = Unused /\ pend = Unused
    /\ \/ /\ demo = "planet"
          /\ \E n \in 0..LoopBodies, numpy \in BOOLEAN :
                /\ \E P \in [1..n -> TGrid] :
                      shapes = [i \in 1..n |-> fresh_planet(i, P[i])]
                /\ nextId = n + 1
                /\ loop = [pc |-> "events", HAS_NUMPY |-> numpy,
                           use_batch_update |-> FALSE, keys |-> 0, ticks |-> 0,
                           passes |-> 0, history |-> <<"start">>,
                           by_batch |-> <<>>, by_hook |-> <<>>]
       \/ /\ demo = "balls"
          /\ shapes = <<>> /\ nextId = 1
          /\ loop = [pc |-> "events", running |-> TRUE, steps |-> 0,
                     frames |-> 0,
                     ticks_to_next_ball |-> INITIAL_TICKS_TO_NEXT_BALL,
                     balls |-> 0, history |-> <<"start">>]

NextLoop ==
    \/ MainQuit \/ MainKeyA \/ MainKeyU \/ MainEventsDone \/ MainBatch
    \/ MainNeighbor \/ MainStep \/ MainMergePass \/ MainMergeDone
    \/ BallsEvents \/ BallsAttraction \/ BallsStep \/ BallsUpdate

SpecLoop == InitLoop /\ [][NextLoop]_vars

\* the stage run just before the stage at place i >= 2 of the history h
StageBefore(h, i) == h[i - 1]

\* planet.py: what may precede each stage
PlanetOrder(h) ==
    \A i \in 2..Len(h) :
       /\ h[i] = "events"   => StageBefore(h, i) \in {"start", "merge"}
       /\ h[i] = "batch"    => StageBefore(h, i) = "events"
       /\ h[i] = "neighbor" => StageBefore(h, i) \in {"events", "batch"}
       /\ h[i] = "step"     => StageBefore(h, i) = "neighbor"
       /\ h[i] = "merge"    => StageBefore(h, i) \in {"step", "merge"}

\* BouncingBalls.py: what may precede each stage
BallsOrder(h) ==
    \A i \in 2..Len(h) :
       /\ h[i] = "events"     => StageBefore(h, i) \in {"start", "update"}
       /\ h[i] = "attraction" => StageBefore(h, i) = "events"
       /\ h[i] = "step"       => StageBefore(h, i) \in {"attraction", "step"}
       /\ h[i] = "update"     => StageBefore(h, i) = "step"

\* C21: tick ordering.  In every iteration of planet.py's main loop the
\* gravity velocity updates (the batched central gravity exactly when batched
\* updates are on, then the neighbour gravity) come before the engine step,
\* and the merge passes come after the engine step and before the gravity of
\* the next iteration; in BouncingBalls.py the neighbour attraction comes
\* before the engine steps of the same frame.  No iteration runs the stages
\* in another order or without the engine step.
C21_TickOrdering ==
    /\ demo = "planet" =>
          /\ PlanetOrder(loop.history)
          \* the flag is as the stages of the iteration found it until the
          \* next event loop
          /\ loop.pc \in {"step", "merge"} =>
                \A i \in 2..Len(loop.history) :
                   loop.history[i] = "neighbor" =>
                      ((StageBefore(loop.history, i) = "batch")
                       <=> (loop.HAS_NUMPY /\ loop.use_batch_update))
    /\ demo = "balls" => BallsOrder(loop.history)

\* two iterations of main are complete, the second one after the merge
\* passes of the first, with the batched update, the neighbour pass, the
\* engine step, a merge pass that merged two planets and one that found none
C21_Witness ==
    /\ demo = "planet"
    /\ loop.ticks = 2
    /\ loop.pc = "events"
    /\ loop.history = <<"merge", "events", "batch", "neighbor", "step",
                        "merge", "merge">>
    /\ ret = "False"

\* how many times id occurs in the sequence ids
Times(ids, id) == Cardinality({k \in DOMAIN ids : ids[k] = id})

\* the engine step of the iteration is just over: the bodies of the space
\* are those the velocity updates of the iteration were made on
StepJustDone == demo = "planet" /\ loop.pc = "merge" /\ loop.passes = 0

\* C22: in planet.py, after any sequence of key events (U, A) and merges,
\* every body of the space gets the central-gravity velocity update exactly
\* once per tick: with use_batch_update on every body has the engine's
\* default velocity function (gravity only from the batch path), with it off
\* every body has planet_gravity (gravity only from the hook); no body is
\* updated by both paths or by neither.
C22_UpdatedExactlyOnce ==
    demo = "planet" =>
      /\ \A i \in DOMAIN shapes :
            shapes[i].velocity_func =
               IF loop.use_batch_update THEN "update_velocity" ELSE "planet_gravity"
      /\ StepJustDone =>
            \A i \in DOMAIN shapes :
               Times(loop.by_batch, shapes[i].id) + Times(loop.by_hook, shapes[i].id) = 1

\* C22, the run in which the code departs from it: batched updates are on
\* and a body of the space has had its velocity written by the batch path
\* and then by planet_gravity in the engine step of the same tick
C22_UpdatedByBothPaths ==
    /\ StepJustDone
    /\ loop.use_batch_update
    /\ \E i \in DOMAIN shapes :
          /\ Times(loop.by_batch, shapes[i].id) = 1
          /\ Times(loop.by_hook, shapes[i].id) = 1

\* what holds of the two paths in every run: no body is left without the
\* update, none gets it more than once from one path, and with batched
\* updates off it comes from planet_gravity alone
UpdatedAtLeastOnce ==
    /\ (demo = "planet" /\ ~loop.use_batch_update) =>
          \A i \in DOMAIN shapes : shapes[i].velocity_func = "planet_gravity"
    /\ StepJustDone =>
          \A i \in DOMAIN shapes :
             /\ Times(loop.by_batch, shapes[i].id) =
                   (IF loop.use_batch_update THEN 1 ELSE 0)
             /\ Times(loop.by_hook, shapes[i].id) =
                   (IF shapes[i].velocity_func = "planet_gravity" THEN 1 ELSE 0)
             /\ Times(loop.by_batch, shapes[i].id) + Times(loop.by_hook, shapes[i].id) >= 1

====
